---- MODULE Spec2Model ----
(***************************************************************************)
(* Reminder dispatch engine of apanykovc/slonyara.                         *)
(*                                                                         *)
(*   Spec       bot.services.reminder.ReminderService over                 *)
(*              bot.models.storage.MeetingStorage                          *)
(*   SpecSender bot.infra.sender.TelegramSender (one profile worker)       *)
(*   SpecGuard  telegram_meeting_bot.utils.locks.ClickGuard                *)
(*                                                                         *)
(* Time is counted in ticks.  For the reminder service one tick is 600 s,  *)
(* so the configured lead times (1800, 600, 0) are 3, 1 and 0 ticks.       *)
(***************************************************************************)
EXTENDS Integers, Sequences, FiniteSets, TLC

VARIABLES
    \* ---- wall clock (datetime.now / loop.time / time.monotonic)
    now,
    \* ---- MeetingStorage (durable, sqlite)
    meetings,       \* meetings table: id -> [status, scheduled_at, chat_id, organizer_id]
    userLead,       \* users.default_lead: user id -> seconds (ticks)
    ledger,         \* chat_reminder_log: set of <<meeting_id, chat_id, lead>>
    \* ---- ReminderService (in memory)
    scheduler,      \* self._scheduler: "none" | "running"
    refreshJob,     \* the "reminder-refresh" interval job is registered
    timers,         \* date jobs of the scheduler: identity -> run_date | NoTimer
    queue,          \* self._queue: sequence of _ReminderJob
    pending,        \* self._pending
    worker,         \* position of _run_worker/_deliver and the job it holds
    \* ---- history of the reminder service (not read by the program)
    sentCount,      \* identity -> successful transport sends since M's last reschedule
    markCount,      \* identity -> mark_reminder_sent calls since M's last reschedule
    staleMarks,     \* ledger entries written by a send started before M's last reschedule
    restarted,      \* the process has been restarted at least once
    exhausted,      \* history (kept by SendFailRecorded): identities this service dropped
                    \* at the attempt budget and has not sent since, with the meeting and
                    \* the settings unchanged
    \* ---- TelegramSender, one profile (bot.infra.sender)
    sq,             \* asyncio.Queue of the profile: sequence of job ids
    sjobs,          \* _SendJob by id: [attempts, max_attempts, future]
    sworker,        \* position of TelegramSender._run_worker and what it holds
    last_sent,      \* local last_sent of _run_worker
    sinvoked,       \* history: job id -> number of factory() invocations
    sfailed,        \* history: job id -> number of invocations that failed transiently
    slast,          \* history: job id -> how its latest invocation ended
    lastInvokeAt,   \* history: {} or {instant of the latest factory() invocation}
    \* ---- ClickGuard
    locks,          \* self._locks: key -> {} or {expires_at}
    grantedAt,      \* history: key -> {} or {instant of the acquire that took it}
    grants,         \* history: key -> successful acquires so far (saturating)
    lastClick,      \* history: the latest acquire and what it returned
    \* ---- lead-time resolution on its own
    leadIn,         \* the organizer's users row, the chat's lead times, the service's
    leadOut,        \* {} or {what _resolve_lead_times returned for leadIn}
    \* ---- telegram_meeting_bot TelegramSender: one TelegramCall
    tg,             \* the call: where it is, its profile, loop index, future, last_exc
    tgInvoked,      \* history: invocations of call.func
    tgFails,        \* history: invocations that raised a timeout or network error
    tgOther,        \* history: an invocation raised something else
    \* ---- TelegramSender, both profiles, and the queue selector
    pq,             \* _ui_queue and _bg_queue: queue name -> sequence of job ids
    pjobs,          \* _SendJob by id, with the name of the queue request() chose
    pworker,        \* _ui_worker and _bg_worker: worker name -> position and job held
    invokedBy,      \* history: job id -> names of the workers that invoked its factory
    ctx,            \* _CURRENT_QUEUE in the context of each asyncio task
    tokens,         \* per task: the Tokens of the open scopes, innermost last
    entered,        \* history: task -> {} or {selector value when the middleware began}
    \* EventsService (telegram_meeting_bot)
    events,         \* _events: event id -> Event, in insertion order of evOrder
    evOrder,        \* the ids of _events in insertion order
    due,            \* the list due_events() has just returned (event ids, in order)
    dueCall,        \* TRUE while due is the result of the step just taken
    \* ReminderService._deliver on one dequeued job, as a function of what it reads
    deliverIn,      \* [meeting, job, sent, pending, t]
    deliverOut,     \* {} before the call, then {[transport, marked, timer, pending]}
    \* bot.handlers: the handler that is running
    hpc,            \* [kind, m, t, pos]: handler, its meeting, its new time, next step
    \* ---- ReminderService._refresh_lock and the outcome of the last refresh_schedule()
    refreshLock,    \* TRUE while the asyncio.Lock is held
    refreshRaised,  \* history: the last refresh_schedule() call ended with an exception
    \* ---- CallbackGuardMiddleware: the callback queries being handled
    cbs,            \* callback -> [pc, key, acquired_at, wake]
    handlerStarts,  \* history: key -> instants at which a handler was started for it
    \* ---- telegram_meeting_bot ReminderService.dispatch_due_events (one run)
    disp,           \* [pc, list, pos, last]: the run, its due list, the event being
                    \* handled, and (history) the event and outcome of the last send
    \* ---- telegram_meeting_bot TelegramSender: op_id dedup over several calls
    tq,             \* self._queue: the calls waiting, oldest first
    tcalls,         \* call -> [op_id, future, deduped]
    recent_ops,     \* self._recent_ops: op_id -> {} or {instant it was accepted}
    truns,          \* worker_tick run -> the call it executes, or NoCall
    acceptedAt      \* history: op_id -> instants at which a call of it was accepted

reminderVars == <<meetings, userLead, ledger, scheduler, refreshJob, timers, queue,
                  pending, worker, sentCount, markCount, staleMarks, restarted,
                  exhausted>>
senderVars == <<sq, sjobs, sworker, last_sent, sinvoked, sfailed, slast, lastInvokeAt>>
guardVars == <<locks, grantedAt, grants, lastClick>>
leadVars == <<leadIn, leadOut>>
safecallVars == <<tg, tgInvoked, tgFails, tgOther>>
profVars == <<pq, pjobs, pworker, invokedBy, ctx, tokens, entered>>
eventVars == <<events, evOrder, due, dueCall>>
deliverVars == <<deliverIn, deliverOut>>
lockVars == <<refreshLock, refreshRaised>>
cbVars == <<cbs, handlerStarts>>
dispVars == <<disp>>
dedupVars == <<tq, tcalls, recent_ops, truns, acceptedAt>>
auxVars == <<lockVars, cbVars, dispVars, dedupVars>>
extraVars == <<eventVars, deliverVars, auxVars>>
quietVars == <<leadVars, safecallVars, profVars, extraVars>>
handlerVars == <<hpc>>
otherVars == <<quietVars, handlerVars>>
vars == <<now, reminderVars, senderVars, guardVars, otherVars>>

\* --------------------------------------------------------------- bounds
MaxTime == 2

\* ------------------------------------------------------ program constants
\* ReminderService(max_attempts=3)
MaxAttempts == 3
\* config._resolve_default_lead over (1800, 600, 0): the largest positive lead, 1800 s
DefaultUserLeadTime == 3
\* ReminderConfig.check_interval (60 s, below one tick but > 0)
CheckInterval == 1

Meetings == {"m1", "m2"}
Chats == {1}
NoChat == 0
Users == {7}
Organizer == CHOOSE u \in Users : TRUE
\* ensure_chat_defaults / load_config default (1800, 600, 0), normalised ascending
ChatLeadTimes == <<0, 1, 3>>
\* ReminderService._lead_times = tuple(sorted(set(...)))
ServiceLeadTimes == <<0, 1, 3>>
\* what a user can store as default_lead_time (already normalised to >= 0)
UserLeadChoices == {0, 3}
SchedTimes == {3, 4}
Leads == {0, 1, 3}
Identities == Meetings \X Chats \X Leads
NoTimer == -1
NoJob == [id |-> <<"none", NoChat, 0>>, attempts |-> 0]

Range(s) == {s[i] : i \in 1 .. Len(s)}
Min2(a, b) == IF a < b THEN a ELSE b

\* ---------------------------------------------------------- MeetingStorage
\* SELECT * FROM meetings WHERE status != 'canceled' ORDER BY scheduled_at
\* (equal instants come back in rowid order, m1 before m2)
Rank(m) == IF m = "m1" THEN 1 ELSE 2
Before(a, b) ==
    \/ meetings[a].scheduled_at < meetings[b].scheduled_at
    \/ meetings[a].scheduled_at = meetings[b].scheduled_at /\ Rank(a) < Rank(b)
list_meetings ==
    LET live == {m \in Meetings : meetings[m].status # "canceled"}
        n == Cardinality(live)
    IN  CHOOSE s \in [1 .. n -> live] :
            /\ Range(s) = live
            /\ \A i, j \in 1 .. n : i < j => Before(s[i], s[j])

\* get_meeting has no status filter: a canceled meeting is still returned
get_meeting(m) == IF m \in Meetings THEN meetings[m] ELSE [status |-> "missing"]

\* get_chat + ensure_chat_defaults: a registered chat always has lead times
get_chat(c) == IF c \in Chats THEN [id |-> c, lead_times |-> ChatLeadTimes]
               ELSE [id |-> NoChat, lead_times |-> <<>>]

\* get_user_settings + ensure_user_defaults: default_lead_time is never negative
get_user_settings(u) ==
    [default_lead_time |-> IF userLead[u] < 0 THEN 0 ELSE userLead[u]]

\* get_user_settings on the users table itself: row is {} when the user has no row
\* (created_at is None) and {default_lead} otherwise
ensure_user_defaults(row, default_lead_time) ==
    LET stored == IF row = {} THEN default_lead_time ELSE CHOOSE v \in row : TRUE
    IN  IF stored < 0 THEN 0 ELSE stored

is_reminder_sent_never(m, c, l) == FALSE
is_reminder_sent(m, c, l) == <<m, c, l>> \in ledger

\* INSERT OR IGNORE INTO chat_reminder_log
mark_reminder_sent(led, m, c, l) == led \cup {<<m, c, l>>}

\* DELETE FROM chat_reminder_log WHERE meeting_id = ?
ClearLog_keep(led, m) == led
ClearLog(led, m) == {e \in led : e[1] # m}

ResetHistory(f, m) == [id \in Identities |-> IF id[1] = m THEN 0 ELSE f[id]]

\* the worker holds a job of m in a transport call that started before m moved to t
MarkInflightStale(m, t) ==
    IF worker.state = "sending" /\ worker.job.id[1] = m /\ t # meetings[m].scheduled_at
    THEN [worker EXCEPT !.stale = TRUE]
    ELSE worker

MeetingStorage_cancel_meeting(m) ==
    /\ scheduler = "running"
    /\ meetings' = [meetings EXCEPT ![m].status = "canceled"]
    /\ ledger' = ClearLog(ledger, m)
    /\ staleMarks' = {e \in staleMarks : e[1] # m}
    /\ exhausted' = {e \in exhausted : e[1] # m}
    /\ UNCHANGED <<now, userLead, scheduler, refreshJob, timers, queue, pending, worker,
                   sentCount, markCount, restarted, senderVars, guardVars, quietVars>>

\* cancel_meeting / reschedule_meeting on their own (the caller is not modelled)
cancel_meeting(m) == MeetingStorage_cancel_meeting(m) /\ UNCHANGED handlerVars

MeetingStorage_reschedule_meeting(m, t) ==
    /\ scheduler = "running"
    /\ meetings' = [meetings EXCEPT ![m].status = "moved", ![m].scheduled_at = t]
    /\ ledger' = ClearLog(ledger, m)
    /\ staleMarks' = {e \in staleMarks : e[1] # m}
    /\ sentCount' = ResetHistory(sentCount, m)
    /\ markCount' = ResetHistory(markCount, m)
    /\ worker' = MarkInflightStale(m, t)
    /\ exhausted' = {e \in exhausted : e[1] # m}
    /\ UNCHANGED <<now, userLead, scheduler, refreshJob, timers, queue, pending,
                   restarted, senderVars, guardVars, quietVars>>

reschedule_meeting(m, t) == MeetingStorage_reschedule_meeting(m, t) /\ UNCHANGED handlerVars

\* update_meeting(scheduled_at=None) touches only title/type/room/ticket_no, which the
\* model does not carry; update_meeting(scheduled_at=t) is modelled here
update_meeting(m, t) ==
    /\ scheduler = "running"
    /\ meetings' = [meetings EXCEPT ![m].status = "moved", ![m].scheduled_at = t]
    /\ ledger' = ClearLog(ledger, m)
    /\ staleMarks' = {e \in staleMarks : e[1] # m}
    /\ sentCount' = ResetHistory(sentCount, m)
    /\ markCount' = ResetHistory(markCount, m)
    /\ worker' = MarkInflightStale(m, t)
    /\ exhausted' = {e \in exhausted : e[1] # m}
    /\ UNCHANGED <<now, userLead, scheduler, refreshJob, timers, queue, pending,
                   restarted, senderVars, guardVars, otherVars>>

save_user_settings(u, lead) ==
    /\ scheduler = "running"
    /\ userLead[u] # lead
    /\ userLead' = [userLead EXCEPT ![u] = IF lead < 0 THEN 0 ELSE lead]
    /\ exhausted' = {e \in exhausted : meetings[e[1]].organizer_id # u}
    /\ UNCHANGED <<now, meetings, ledger, scheduler, refreshJob, timers, queue, pending,
                   worker, sentCount, markCount, staleMarks, restarted, senderVars, guardVars,
                   otherVars>>

\* --------------------------------------------------------- ReminderService
_job_id(m, c, l) == <<m, c, l>>

NewJob(m, c, l) == [id |-> <<m, c, l>>, attempts |-> 0]

\* organizer override > 0, then 0 = disabled, then chat lead times, then service default
ResolveByUserLead(user_lead, chat_lead_times, lead_times) ==
    IF user_lead = 0 THEN <<>>
    ELSE IF user_lead > 0 THEN <<user_lead>>
    ELSE IF chat_lead_times # <<>> THEN chat_lead_times
    ELSE lead_times

_resolve_lead_times(m, chat) ==
    ResolveByUserLead(get_user_settings(meetings[m].organizer_id).default_lead_time,
                      chat.lead_times, ServiceLeadTimes)

\* st = [q, p, t, active]: queue, pending set, date jobs, active_jobs of one refresh
_enqueue_always(st, job, force) ==
    [st EXCEPT !.p = @ \cup {job.id}, !.q = Append(@, job)]
_enqueue_unforced(st, job, force) ==
    IF job.id \in st.p THEN st
    ELSE [st EXCEPT !.p = @ \cup {job.id}, !.q = Append(@, job)]
_enqueue(st, job, force) ==
    IF ~force /\ job.id \in st.p THEN st
    ELSE [st EXCEPT !.p = @ \cup {job.id}, !.q = Append(@, job)]

\* add_job(trigger="date", id=job_id, replace_existing=True); no-op without a scheduler
_schedule_future_job(st, sch, job_id, run_at) ==
    IF sch = "none" THEN st ELSE [st EXCEPT !.t[job_id] = run_at]

_remove_scheduler_job(st, sch, job_id) ==
    IF sch = "none" THEN st ELSE [st EXCEPT !.t[job_id] = NoTimer]

_remove_all_jobs_for_meeting(st, sch, m, c) ==
    IF sch = "none" THEN st
    ELSE [st EXCEPT !.t = [id \in Identities |->
                             IF id[1] = m /\ id[2] = c THEN NoTimer ELSE @[id]]]

\* removes every scheduler job whose id is not kept; "reminder-refresh" is never kept
_cleanup_scheduler_jobs_none(st, sch, keep) == st
_cleanup_scheduler_jobs(st, sch, keep) ==
    IF sch = "none" THEN st
    ELSE [st EXCEPT !.t = [id \in Identities |-> IF id \in keep THEN @[id] ELSE NoTimer],
                    !.r = FALSE]

RECURSIVE RefreshLeads(_, _, _, _)
RefreshLeads(st, sch, m, lead_times) ==
    IF lead_times = <<>> THEN st
    ELSE
        LET lead_time == Head(lead_times)
            c == meetings[m].chat_id
            job_id == _job_id(m, c, lead_time)
            due_at == meetings[m].scheduled_at - lead_time
            st1 ==
                IF is_reminder_sent(m, c, lead_time)
                THEN _remove_scheduler_job(st, sch, job_id)
                ELSE IF due_at <= now
                THEN _remove_scheduler_job(
                         _enqueue(st, NewJob(m, c, lead_time), FALSE), sch, job_id)
                ELSE LET st2 == _schedule_future_job(st, sch, job_id, due_at)
                     IN  [st2 EXCEPT !.active = @ \cup {job_id}]
        IN  RefreshLeads(st1, sch, m, Tail(lead_times))

RECURSIVE RefreshMeetings(_, _, _)
RefreshMeetings(st, sch, ms) ==
    IF ms = <<>> THEN st
    ELSE
        LET m == Head(ms)
            c == meetings[m].chat_id
            chat == get_chat(c)
            lead_times == _resolve_lead_times(m, chat)
            st1 ==
                IF c = NoChat THEN st
                ELSE IF chat.id = NoChat THEN st
                ELSE IF lead_times = <<>>
                THEN _remove_all_jobs_for_meeting(st, sch, m, c)
                ELSE RefreshLeads(st, sch, m, lead_times)
        IN  RefreshMeetings(st1, sch, Tail(ms))

\* the state refresh_schedule() leaves, run with scheduler state sch and
\* "reminder-refresh" registration r
RefreshResult(sch, r) ==
    LET st0 == [q |-> queue, p |-> pending, t |-> timers, r |-> r, active |-> {}]
        st1 == RefreshMeetings(st0, sch, list_meetings)
    IN  _cleanup_scheduler_jobs(st1, sch, st1.active)

\* send_due_reminders() awaits refresh_schedule(), which has no suspension point
\* (the lock is never contended, the queue is unbounded)
send_due_reminders ==
    /\ scheduler \in {"running", "stopped"}
    /\ LET st == RefreshResult(scheduler, refreshJob)
       IN  /\ queue' = st.q
           /\ pending' = st.p
           /\ timers' = st.t
           /\ refreshJob' = st.r
    /\ UNCHANGED <<now, meetings, userLead, ledger, scheduler, worker,
                   sentCount, markCount, staleMarks, restarted, exhausted, senderVars, guardVars,
                   quietVars>>

\* refresh_schedule() outside a handler
refresh_schedule == send_due_reminders /\ UNCHANGED handlerVars

\* "async with self._refresh_lock": __aexit__ releases the lock however the body ends
lock_aexit_on_return(raised) == raised
lock_aexit(raised) == FALSE

\* the state the body of refresh_schedule() leaves when a store call raises while
\* meeting number i of list_meetings() is handled (i = 1 also stands for
\* list_meetings() itself raising): the loop has handled the meetings before it and
\* _cleanup_scheduler_jobs is not reached.  With the configured default each meeting
\* resolves to one lead time, so no lead of meeting i has been handled.
RefreshRaised(st0, sch, i) == RefreshMeetings(st0, sch, SubSeq(list_meetings, 1, i - 1))

\* the state a complete refresh_schedule() leaves when it starts from st0
RefreshFrom(st0, sch) ==
    LET st1 == RefreshMeetings([st0 EXCEPT !.active = {}], sch, list_meetings)
    IN  _cleanup_scheduler_jobs(st1, sch, st1.active)

RefreshState == [q |-> queue, p |-> pending, t |-> timers, r |-> refreshJob, active |-> {}]

\* refresh_schedule() with the lock; fail = 0: the store answers every call,
\* fail = i > 0: it raises at meeting i and the exception leaves refresh_schedule()
refresh_schedule_locked(fail) ==
    /\ scheduler \in {"running", "stopped"}
    /\ ~refreshLock
    /\ fail <= Len(list_meetings)
    /\ LET st == IF fail = 0 THEN RefreshFrom(RefreshState, scheduler)
                 ELSE RefreshRaised(RefreshState, scheduler, fail)
       IN  /\ queue' = st.q
           /\ pending' = st.p
           /\ timers' = st.t
           /\ refreshJob' = st.r
    /\ refreshLock' = lock_aexit(fail > 0)
    /\ refreshRaised' = (fail > 0)
    /\ UNCHANGED <<now, meetings, userLead, ledger, scheduler, worker,
                   sentCount, markCount, staleMarks, restarted, exhausted, senderVars, guardVars,
                   leadVars, safecallVars, profVars, eventVars, deliverVars, cbVars,
                   dispVars, dedupVars,
                   handlerVars>>

\* start(): create the scheduler, register "reminder-refresh", create the worker task,
\* then await refresh_schedule()
start ==
    /\ scheduler \in {"none", "stopped"}
    /\ scheduler' = "running"
    /\ LET st == RefreshResult("running", CheckInterval > 0)
       IN  /\ queue' = st.q
           /\ pending' = st.p
           /\ timers' = st.t
           /\ refreshJob' = st.r
    /\ worker' = IF worker.state \in {"cancelled", "failed"} THEN worker
                 ELSE [state |-> "idle", job |-> NoJob, stale |-> FALSE]
    /\ UNCHANGED <<now, meetings, userLead, ledger,
                   sentCount, markCount, staleMarks, restarted, exhausted, senderVars, guardVars,
                   otherVars>>

\* stop() of a started service: the worker task is cancelled, then
\* "await self._scheduler.shutdown(wait=False)" shuts the scheduler down (its job
\* store is emptied) and raises TypeError, because AsyncIOScheduler.shutdown is an
\* ordinary method that returns None.  The statements after it are not run:
\* self._scheduler and self._worker_task keep their objects, the queue is not
\* drained and the pending set is not cleared.
stop ==
    /\ scheduler = "running"
    /\ scheduler' = "stopped"
    /\ refreshJob' = FALSE
    /\ timers' = [id \in Identities |-> NoTimer]
    /\ worker' = [state |-> "cancelled", job |-> NoJob, stale |-> FALSE]
    /\ UNCHANGED <<now, meetings, userLead, ledger, queue, pending,
                   sentCount, markCount, staleMarks, restarted, exhausted, senderVars, guardVars,
                   otherVars>>

\* The process dies and is started again: ReminderService.__init__ builds an empty
\* queue, an empty pending set and no scheduler; the sqlite file is what it was.
Restart ==
    /\ scheduler = "running"
    /\ scheduler' = "none"
    /\ refreshJob' = FALSE
    /\ timers' = [id \in Identities |-> NoTimer]
    /\ queue' = <<>>
    /\ pending' = {}
    /\ worker' = [state |-> "idle", job |-> NoJob, stale |-> FALSE]
    /\ restarted' = TRUE
    /\ exhausted' = {}
    /\ UNCHANGED <<now, meetings, userLead, ledger,
                   sentCount, markCount, staleMarks, senderVars, guardVars, otherVars>>

\* a date job comes due and APScheduler runs _handle_scheduled_job
_handle_scheduled_job(m, c, l) ==
    /\ scheduler = "running"
    /\ timers[<<m, c, l>>] # NoTimer
    /\ timers[<<m, c, l>>] <= now
    /\ LET meeting == get_meeting(m)
           chat == get_chat(c)
           st0 == [q |-> queue, p |-> pending]
           st == IF meeting.status = "missing" \/ meeting.chat_id # c THEN st0
                 ELSE IF chat.id = NoChat THEN st0
                 ELSE IF l \notin Range(_resolve_lead_times(m, chat)) THEN st0
                 ELSE IF is_reminder_sent(m, c, l) THEN st0
                 ELSE _enqueue(st0, NewJob(m, c, l), FALSE)
       IN  /\ queue' = st.q
           /\ pending' = st.p
    /\ timers' = [timers EXCEPT ![<<m, c, l>>] = NoTimer]
    /\ UNCHANGED <<now, meetings, userLead, ledger, scheduler, refreshJob, worker,
                   sentCount, markCount, staleMarks, restarted, exhausted, senderVars, guardVars,
                   otherVars>>

\* if not meeting or meeting.chat_id != job.chat_id
SameChat_any(meeting, job) == meeting.status # "missing"
SameChat(meeting, job) == meeting.status # "missing" /\ meeting.chat_id = job.id[2]

\* due_at > now
NotYetDue_never(scheduled_at, lead_time, t) == FALSE
NotYetDue(scheduled_at, lead_time, t) == scheduled_at - lead_time > t

\* _deliver before the transport call; sent is is_reminder_sent(meeting, chat, lead):
\* "skip" and "future" return True without a call, "send" goes on to send_message
_deliver_check(meeting, job, sent, t) ==
    IF ~SameChat(meeting, job) THEN "skip"
    ELSE IF sent THEN "skip"
    ELSE IF NotYetDue(meeting.scheduled_at, job.id[3], t) THEN "future"
    ELSE "send"

\* _run_worker: queue.get(), then _deliver up to the transport call
WorkerTake ==
    /\ scheduler = "running"
    /\ worker.state = "idle"
    /\ queue # <<>>
    /\ LET job == Head(queue)
           m == job.id[1]
           c == job.id[2]
           l == job.id[3]
           meeting == get_meeting(m)
           outcome == _deliver_check(meeting, job, is_reminder_sent(m, c, l), now)
           idle == [state |-> "idle", job |-> NoJob, stale |-> FALSE]
       IN  /\ queue' = Tail(queue)
           /\ IF outcome = "skip"
              THEN /\ worker' = idle
                   /\ pending' = pending \ {job.id}
                   /\ timers' = timers
              ELSE IF outcome = "future"
              THEN /\ worker' = idle
                   /\ pending' = pending \ {job.id}
                   /\ timers' = _schedule_future_job([t |-> timers], scheduler, job.id,
                                                     meeting.scheduled_at - l).t
              ELSE /\ worker' = [state |-> "sending", job |-> job, stale |-> FALSE]
                   /\ pending' = pending
                   /\ timers' = timers
    /\ UNCHANGED <<now, meetings, userLead, ledger, scheduler, refreshJob,
                   sentCount, markCount, staleMarks, restarted, exhausted, senderVars, guardVars,
                   otherVars>>

Bump(f, id) == [f EXCEPT ![id] = Min2(@ + 1, 2)]

\* bot.send_message returned: mark the ledger, _deliver returns True
SendOk ==
    /\ scheduler = "running"
    /\ worker.state = "sending"
    /\ LET id == worker.job.id
       IN  /\ ledger' = mark_reminder_sent(ledger, id[1], id[2], id[3])
           /\ pending' = pending \ {id}
           /\ sentCount' = Bump(sentCount, id)
           /\ markCount' = Bump(markCount, id)
           /\ staleMarks' = IF worker.stale THEN staleMarks \cup {id}
                            ELSE staleMarks \ {id}
    /\ worker' = [state |-> "idle", job |-> NoJob, stale |-> FALSE]
    /\ exhausted' = exhausted \ {worker.job.id}
    /\ UNCHANGED <<now, meetings, userLead, scheduler, refreshJob, timers, queue,
                   restarted, senderVars, guardVars, otherVars>>

\* if job.attempts >= self._max_attempts
AttemptsExhausted_late(attempts, max_attempts) == attempts > max_attempts
AttemptsExhausted(attempts, max_attempts) == attempts >= max_attempts

\* bot.send_message raised: count the attempt, drop at the budget or go to sleep;
\* record says whether the history of drops is kept
_deliver_failed(record) ==
    /\ worker.state = "sending"
    /\ LET job == [worker.job EXCEPT !.attempts = @ + 1]
       IN  IF AttemptsExhausted(job.attempts, MaxAttempts)
           THEN /\ worker' = [state |-> "idle", job |-> NoJob, stale |-> FALSE]
                /\ pending' = pending \ {job.id}
                /\ exhausted' = IF record THEN exhausted \cup {job.id} ELSE exhausted
           ELSE /\ worker' = [state |-> "sleeping", job |-> job, stale |-> FALSE]
                /\ pending' = pending
                /\ exhausted' = exhausted
    /\ UNCHANGED <<now, meetings, userLead, ledger, scheduler, refreshJob, timers, queue,
                   sentCount, markCount, staleMarks, restarted, senderVars, guardVars,
                   otherVars>>

SendFail ==
    /\ scheduler = "running"
    /\ _deliver_failed(FALSE)

\* the same step with the drop recorded in exhausted
SendFailRecorded ==
    /\ scheduler = "running"
    /\ _deliver_failed(TRUE)

\* asyncio.sleep(delay) is over: _enqueue(job, force=True), _deliver returns False
RetryWake ==
    /\ scheduler = "running"
    /\ worker.state = "sleeping"
    /\ LET st == _enqueue([q |-> queue, p |-> pending], worker.job, TRUE)
       IN  /\ queue' = st.q
           /\ pending' = st.p
    /\ worker' = [state |-> "idle", job |-> NoJob, stale |-> FALSE]
    /\ UNCHANGED <<now, meetings, userLead, ledger, scheduler, refreshJob, timers,
                   sentCount, markCount, staleMarks, restarted, exhausted, senderVars, guardVars,
                   otherVars>>

\* the task of _run_worker after an exception left it: _worker_task stays set
WorkerFailed == [state |-> "failed", job |-> NoJob, stale |-> FALSE]

\* _deliver raises before the transport call (get_meeting, is_reminder_sent or
\* _render_message): success stays False, so the finally of _run_worker only calls
\* task_done(), and the exception leaves the "while True" loop, which catches
\* CancelledError only
WorkerTakeRaises ==
    /\ scheduler = "running"
    /\ worker.state = "idle"
    /\ queue # <<>>
    /\ queue' = Tail(queue)
    /\ worker' = WorkerFailed
    /\ UNCHANGED <<now, meetings, userLead, ledger, scheduler, refreshJob, timers, pending,
                   sentCount, markCount, staleMarks, restarted, exhausted, senderVars,
                   guardVars, otherVars>>

\* bot.send_message returned and mark_reminder_sent raises (outside the try of
\* _deliver): the message is out, the ledger is unmarked, the worker task ends
SendOkMarkRaises ==
    /\ scheduler = "running"
    /\ worker.state = "sending"
    /\ sentCount' = Bump(sentCount, worker.job.id)
    /\ worker' = WorkerFailed
    /\ UNCHANGED <<now, meetings, userLead, ledger, scheduler, refreshJob, timers, queue,
                   pending, markCount, staleMarks, restarted, exhausted, senderVars,
                   guardVars, otherVars>>

Tick ==
    /\ now < MaxTime
    /\ now' = now + 1
    /\ UNCHANGED <<reminderVars, senderVars, guardVars, otherVars>>

\* ------------------------------------------------------------ TelegramSender
\* One profile (queue and worker) of bot.infra.sender.TelegramSender.  For the
\* sender one tick is half of the profile's 1/rps.
SendJobs == {"a", "b"}
NoSendJob == "none"
\* TelegramSenderConfig(max_attempts=2) of the ui profile
ConfigMaxAttempts == 2
\* min_interval = 1.0 / config.rps
MinInterval == 2
\* self._rate_limit_buffer
RateLimitBuffer == 1
\* config.retry_base_delay, config.retry_multiplier, config.retry_max_delay
RetryBaseDelay == 2
RetryMultiplier == 2
RetryMaxDelay == 3
\* TelegramRetryAfter.retry_after when the response carries a wait hint
RetryAfterHint == 2
\* the max_attempts argument of request(); 0 stands for None
RequestMaxAttempts == {0, 3}
SenderMaxTime == 6
\* job.timeout (config.timeout or the timeout argument of request())
CallTimeout == 1

\* loop.time(): the monotonic clock has run for at least 1/rps when the worker starts,
\* so the initial last_sent = 0.0 never delays the first job
LoopTimeAtStart == MinInterval
loop_time == now + LoopTimeAtStart

RECURSIVE Pow(_, _)
Pow(b, e) == IF e <= 0 THEN 1 ELSE b * Pow(b, e - 1)

\* how one factory() invocation under asyncio.wait_for can end
TransientKinds == {"timeout", "server_error", "network", "http"}
Outcomes ==
    [kind : {"ok", "bad_request", "unexpected"} \cup TransientKinds, retry_after : {{}}]
        \cup [kind : {"retry_after"}, retry_after : {{}, {RetryAfterHint}}]

\* the exception object a future is failed with (a TelegramRetryAfter carries its hint)
ExcOf(o) ==
    IF o.kind = "retry_after" /\ o.retry_after = {} THEN "retry_after_nohint" ELSE o.kind

\* the except clauses of _run_worker that call _handle_retry
RoutesToRetry_all(kind) == kind # "ok"
RoutesToRetry(kind) == kind \in TransientKinds \cup {"retry_after"}

_fail_job(job, exc) == IF job.future = "pending" THEN [job EXCEPT !.future = exc] ELSE job

BudgetExhausted_late(attempts, max_attempts) == attempts > max_attempts
BudgetExhausted(attempts, max_attempts) == attempts >= max_attempts

\* if delay is None: delay = min(max_delay, base_delay * multiplier ** (attempts - 1))
RetryDelay_backoff(attempts, delay) ==
    {Min2(RetryMaxDelay, RetryBaseDelay * Pow(RetryMultiplier, attempts - 1))}
RetryDelay(attempts, delay) ==
    IF delay = {}
    THEN {Min2(RetryMaxDelay, RetryBaseDelay * Pow(RetryMultiplier, attempts - 1))}
    ELSE delay

\* delay is {} for None; the result is the job and {} (failed) or {seconds to sleep}
_handle_retry(job, exc, delay, hard_limit) ==
    LET j1 == [job EXCEPT !.attempts = @ + 1]
    IN  IF BudgetExhausted(j1.attempts, j1.max_attempts) \/ (hard_limit /\ delay = {})
        THEN [job |-> _fail_job(j1, exc), sleep |-> {}]
        ELSE [job |-> j1, sleep |-> RetryDelay(j1.attempts, delay)]

SenderWorkerIdle == [state |-> "idle", job |-> NoSendJob, wake |-> 0]

\* TelegramSender.start(): create the worker task of the profile
TelegramSender_start ==
    /\ sworker.state = "none"
    /\ sworker' = SenderWorkerIdle
    /\ last_sent' = 0
    /\ UNCHANGED <<now, reminderVars, guardVars, sq, sjobs, sinvoked, sfailed,
                   slast, lastInvokeAt, otherVars>>

\* TelegramSender.stop(): cancel the future of every job still in the queue, then
\* cancel and await the worker task.  The CancelledError reaches the worker at its
\* await (queue.get, asyncio.sleep, wait_for); no except clause of _run_worker or
\* _handle_retry takes it, so the job the worker holds is dropped as it is.
TelegramSender_stop ==
    /\ sjobs' = [j \in SendJobs |->
                    IF j \in Range(sq) /\ sjobs[j].future = "pending"
                    THEN [sjobs[j] EXCEPT !.future = "cancelled"]
                    ELSE sjobs[j]]
    /\ sq' = <<>>
    /\ sworker' = [state |-> "none", job |-> NoSendJob, wake |-> 0]
    /\ UNCHANGED <<now, reminderVars, guardVars, last_sent, sinvoked, sfailed,
                   slast, lastInvokeAt, otherVars>>

\* asyncio.Queue.put_nowait(job): the job goes to the back of the queue
put_nowait_front(q, j) == <<j>> \o q
put_nowait(q, j) == Append(q, j)

\* request() -> _submit(): build the job, put it on the queue, await the future
request(j, max_attempts) ==
    /\ sjobs[j].future = "none"
    /\ sjobs' = [sjobs EXCEPT ![j] =
                    [attempts |-> 0,
                     max_attempts |-> IF max_attempts <= 0 THEN ConfigMaxAttempts
                                      ELSE max_attempts,
                     future |-> "pending"]]
    /\ sq' = put_nowait(sq, j)
    /\ UNCHANGED <<now, reminderVars, guardVars, sworker, last_sent, sinvoked, sfailed,
                   slast, lastInvokeAt, otherVars>>

\* asyncio.wait_for(..., timeout=job.timeout) gives up at its deadline
TimedOut_never(deadline, t) == FALSE
TimedOut(deadline, t) == t >= deadline

\* asyncio.wait_for(job.factory(), timeout=job.timeout) starts
Invoke(j) ==
    /\ sworker' = [state |-> "calling", job |-> j, wake |-> now + CallTimeout]
    /\ sinvoked' = [sinvoked EXCEPT ![j] = @ + 1]
    /\ lastInvokeAt' = {now}

\* job = await queue.get(); wait_time = min_interval - (loop.time() - last_sent)
SenderGet ==
    /\ sworker.state = "idle"
    /\ sq # <<>>
    /\ sq' = Tail(sq)
    /\ LET job == Head(sq)
           wait_time == MinInterval - (loop_time - last_sent)
       IN  IF wait_time > 0
           THEN /\ sworker' = [state |-> "rate_sleep", job |-> job,
                               wake |-> now + wait_time + RateLimitBuffer]
                /\ UNCHANGED <<sinvoked, lastInvokeAt, otherVars>>
           ELSE Invoke(job)
    /\ UNCHANGED <<now, reminderVars, guardVars, sjobs, last_sent, sfailed, slast, otherVars>>

\* asyncio.sleep(wait_time + buffer) is over
SenderRateWake ==
    /\ sworker.state = "rate_sleep"
    /\ now >= sworker.wake
    /\ Invoke(sworker.job)
    /\ UNCHANGED <<now, reminderVars, guardVars, sq, sjobs, last_sent, sfailed, slast,
                   otherVars>>

\* the invocation ends with outcome o: the try/except/else of _run_worker
SenderCallEnds(o) ==
    /\ sworker.state = "calling"
    /\ o.kind = "timeout" => TimedOut(sworker.wake, now)
    /\ LET j == sworker.job
           job == sjobs[j]
           r == _handle_retry(job, ExcOf(o), o.retry_after, o.kind = "retry_after")
       IN  /\ slast' = [slast EXCEPT ![j] = ExcOf(o)]
           /\ sfailed' = [sfailed EXCEPT ![j] =
                             IF o.kind \in TransientKinds
                                \/ (o.kind = "retry_after" /\ o.retry_after # {})
                             THEN @ + 1 ELSE @]
           /\ IF o.kind = "ok"
              THEN /\ sjobs' = [sjobs EXCEPT ![j].future =
                                   IF @ = "pending" THEN "result" ELSE @]
                   /\ last_sent' = loop_time
                   /\ sworker' = SenderWorkerIdle
              ELSE IF RoutesToRetry(o.kind)
              THEN /\ sjobs' = [sjobs EXCEPT ![j] = r.job]
                   /\ last_sent' = last_sent
                   /\ sworker' = IF r.sleep = {} THEN SenderWorkerIdle
                                 ELSE [state |-> "retry_sleep", job |-> j,
                                       wake |-> now + (CHOOSE d \in r.sleep : TRUE)]
              ELSE /\ sjobs' = [sjobs EXCEPT ![j] = _fail_job(job, ExcOf(o))]
                   /\ last_sent' = last_sent
                   /\ sworker' = SenderWorkerIdle
    /\ UNCHANGED <<now, reminderVars, guardVars, sq, sinvoked, lastInvokeAt, otherVars>>

\* _handle_retry: asyncio.sleep(delay) is over, queue.put_nowait(job)
SenderRetryWake ==
    /\ sworker.state = "retry_sleep"
    /\ now >= sworker.wake
    /\ sq' = put_nowait(sq, sworker.job)
    /\ sworker' = SenderWorkerIdle
    /\ UNCHANGED <<now, reminderVars, guardVars, sjobs, last_sent, sinvoked, sfailed,
                   slast, lastInvokeAt, otherVars>>

\* the clock moves on while the worker waits for an instant: the end of a sleep or the
\* deadline of wait_for
SenderTickDue ==
    /\ sworker.state \in {"rate_sleep", "retry_sleep", "calling"}
    /\ now < sworker.wake
    /\ now' = now + 1
    /\ UNCHANGED <<reminderVars, senderVars, guardVars, otherVars>>

SenderTick ==
    /\ now < SenderMaxTime
    /\ now' = now + 1
    /\ UNCHANGED <<reminderVars, senderVars, guardVars, otherVars>>

\* ---------------------------------------------------------------- ClickGuard
\* telegram_meeting_bot.utils.locks.ClickGuard; a key is (chat_id, message_id)
Keys == {<<1, 10>>, <<1, 11>>}
\* ClickGuard(window=...)
Window == 2
GuardMaxTime == 3

\* state.expires_at > now
LockLive_inclusive(expires_at, t) == expires_at >= t
LockLive(expires_at, t) == expires_at > t

acquire(key) ==
    /\ LET refused == \E expires_at \in locks[key] : LockLive(expires_at, now)
       IN  /\ locks' = IF refused THEN locks ELSE [locks EXCEPT ![key] = {now + Window}]
           /\ grantedAt' = IF refused THEN grantedAt ELSE [grantedAt EXCEPT ![key] = {now}]
           /\ grants' = IF refused THEN grants ELSE [grants EXCEPT ![key] = Min2(@ + 1, 2)]
           /\ lastClick' = [op |-> "acquire", key |-> key, result |-> ~refused]
    /\ UNCHANGED <<now, reminderVars, senderVars, otherVars>>

release(key) ==
    /\ locks' = [locks EXCEPT ![key] = {}]
    /\ grantedAt' = [grantedAt EXCEPT ![key] = {}]
    /\ lastClick' = [op |-> "release", key |-> key, result |-> TRUE]
    /\ UNCHANGED <<now, reminderVars, senderVars, grants, otherVars>>

cleanup ==
    /\ locks' = [key \in Keys |-> {expires_at \in locks[key] : ~(expires_at <= now)}]
    /\ lastClick' = [op |-> "cleanup", key |-> <<0, 0>>, result |-> TRUE]
    /\ UNCHANGED <<now, reminderVars, senderVars, grantedAt, grants, otherVars>>

GuardTick ==
    /\ now < GuardMaxTime
    /\ now' = now + 1
    /\ UNCHANGED <<reminderVars, senderVars, guardVars, otherVars>>

\* ----------------------------------- TelegramSender: op_id dedup in _process_call
\* several calls, some with the same op_id, and the worker_tick runs the scheduler
\* lets overlap (max_instances=3; two are modelled).  _execute_with_retry is one step
\* here, its loop is the subject of the one-call model above.
TgCalls == {"k1", "k2", "k3"}
OpIds == {"cb:ack", "reminder"}
TickRuns == {1, 2}
NoCall == "none"
\* stale_before = now - 60: two ticks of 30 s
DedupWindow == 2
DedupMaxTime == 3

DedupInit ==
    /\ tq = <<>>
    /\ tcalls = [k \in TgCalls |-> [op_id |-> "none", future |-> "none", deduped |-> FALSE]]
    /\ recent_ops = [op \in OpIds |-> {}]
    /\ truns = [i \in TickRuns |-> NoCall]
    /\ acceptedAt = [op \in OpIds |-> {}]

\* if ts < stale_before
StaleOp_inclusive(ts, t) == ts <= t - DedupWindow
StaleOp(ts, t) == ts < t - DedupWindow

\* safe_tg_call(profile, op_id, func, ...): queue the call and await its future
TgSubmit(k, op_id) ==
    /\ tcalls[k].future = "none"
    /\ tcalls' = [tcalls EXCEPT ![k] = [op_id |-> op_id, future |-> "pending",
                                        deduped |-> FALSE]]
    /\ tq' = Append(tq, k)
    /\ UNCHANGED <<now, reminderVars, senderVars, guardVars, leadVars, safecallVars,
                   profVars, eventVars, deliverVars, lockVars, cbVars, dispVars,
                   recent_ops, truns, acceptedAt, handlerVars>>

\* a worker_tick run takes the next call (get_nowait) and _process_call runs up to its
\* first await: under self._lock, whose body has no await, it drops the stale
\* entries, resolves a call whose op_id is still recorded with None, and otherwise
\* records the op_id and goes on to _execute_with_retry
_process_call(i) ==
    /\ truns[i] = NoCall
    /\ tq # <<>>
    /\ LET k == Head(tq)
           op_id == tcalls[k].op_id
           kept == [op \in OpIds |-> {ts \in recent_ops[op] : ~StaleOp(ts, now)}]
       IN  /\ tq' = Tail(tq)
           /\ IF kept[op_id] # {}
              THEN /\ recent_ops' = kept
                   /\ tcalls' = [tcalls EXCEPT ![k].future = "none_result",
                                               ![k].deduped = TRUE]
                   /\ UNCHANGED <<truns, acceptedAt>>
              ELSE /\ recent_ops' = [kept EXCEPT ![op_id] = {now}]
                   /\ truns' = [truns EXCEPT ![i] = k]
                   /\ acceptedAt' = [acceptedAt EXCEPT ![op_id] = @ \cup {now}]
                   /\ UNCHANGED tcalls
    /\ UNCHANGED <<now, reminderVars, senderVars, guardVars, leadVars, safecallVars,
                   profVars, eventVars, deliverVars, lockVars, cbVars, dispVars,
                   handlerVars>>

\* _execute_with_retry returned (a result, or None for "Message is not modified") or
\* raised: the future is resolved and the run goes back to the queue
ExecuteEnds(i, res) ==
    /\ truns[i] # NoCall
    /\ tcalls' = [tcalls EXCEPT ![truns[i]].future = IF @ = "pending" THEN res ELSE @]
    /\ truns' = [truns EXCEPT ![i] = NoCall]
    /\ UNCHANGED <<now, reminderVars, senderVars, guardVars, leadVars, safecallVars,
                   profVars, eventVars, deliverVars, lockVars, cbVars, dispVars,
                   tq, recent_ops, acceptedAt, handlerVars>>

DedupTick ==
    /\ now < DedupMaxTime
    /\ now' = now + 1
    /\ UNCHANGED <<reminderVars, senderVars, guardVars, otherVars>>

\* ---------------------------------------------------- CallbackGuardMiddleware
\* telegram_meeting_bot.core.middlewares.callback_guard; the answers and the keyboard
\* freeze sent through safe_tg_call are not modelled, the handler starts with the grant
Callbacks == {"c1", "c2", "c3"}
\* event.message is None
NoMessage == <<0, 0>>
NoCallback == [pc |-> "none", key |-> NoMessage, acquired_at |-> 0, wake |-> 0]

CallbackInit ==
    /\ cbs = [c \in Callbacks |-> NoCallback]
    /\ handlerStarts = [key \in Keys |-> {}]

\* __call__ up to the handler: without a message the handler runs unguarded; otherwise
\* acquire(chat_id, message_id), and the handler runs only if it returned True
CallbackGuardMiddleware_call(c, key) ==
    /\ cbs[c].pc = "none"
    /\ IF key = NoMessage
       THEN /\ cbs' = [cbs EXCEPT ![c].pc = "handler_plain"]
            /\ UNCHANGED <<guardVars, handlerStarts>>
       ELSE LET accepted == ~\E expires_at \in locks[key] : LockLive(expires_at, now)
            IN  /\ locks' = IF accepted THEN [locks EXCEPT ![key] = {now + Window}]
                            ELSE locks
                /\ grantedAt' = IF accepted THEN [grantedAt EXCEPT ![key] = {now}]
                                ELSE grantedAt
                /\ grants' = IF accepted THEN [grants EXCEPT ![key] = Min2(@ + 1, 2)]
                             ELSE grants
                /\ lastClick' = [op |-> "acquire", key |-> key, result |-> accepted]
                /\ cbs' = [cbs EXCEPT ![c] =
                              IF accepted
                              THEN [pc |-> "handler", key |-> key, acquired_at |-> now,
                                    wake |-> 0]
                              ELSE [pc |-> "dedup", key |-> key, acquired_at |-> 0,
                                    wake |-> 0]]
                /\ handlerStarts' = IF accepted
                                    THEN [handlerStarts EXCEPT ![key] = @ \cup {now}]
                                    ELSE handlerStarts
    /\ UNCHANGED <<now, reminderVars, senderVars, leadVars, safecallVars, profVars,
                   eventVars, deliverVars, lockVars, dispVars, dedupVars,
                   handlerVars>>

\* the handler returned or raised; finally: create_task(release_later(...)), which
\* starts with asyncio.sleep(self._window)
HandlerReturns(c) ==
    /\ cbs[c].pc \in {"handler", "handler_plain"}
    /\ cbs' = [cbs EXCEPT ![c].pc = IF @ = "handler" THEN "release_wait" ELSE "done",
                          ![c].wake = now + Window]
    /\ UNCHANGED <<now, reminderVars, senderVars, guardVars, leadVars, safecallVars,
                   profVars, eventVars, deliverVars, lockVars, handlerStarts, dispVars,
                   dedupVars,
                   handlerVars>>

\* release_later after its sleep: release(chat_id, message_id) pops the key
release_later(c) ==
    /\ cbs[c].pc = "release_wait"
    /\ now >= cbs[c].wake
    /\ locks' = [locks EXCEPT ![cbs[c].key] = {}]
    /\ grantedAt' = [grantedAt EXCEPT ![cbs[c].key] = {}]
    /\ lastClick' = [op |-> "release", key |-> cbs[c].key, result |-> TRUE]
    /\ cbs' = [cbs EXCEPT ![c].pc = "done"]
    /\ UNCHANGED <<now, reminderVars, senderVars, grants, leadVars, safecallVars,
                   profVars, eventVars, deliverVars, lockVars, handlerStarts, dispVars,
                   dedupVars,
                   handlerVars>>

\* ------------------------------------------------------------------ Spec
\* TelegramSender.__init__: empty queue, no worker task
SenderInit ==
    /\ sq = <<>>
    /\ sjobs = [j \in SendJobs |-> [attempts |-> 0, max_attempts |-> 0, future |-> "none"]]
    /\ sworker = [state |-> "none", job |-> NoSendJob, wake |-> 0]
    /\ last_sent = 0
    /\ sinvoked = [j \in SendJobs |-> 0]
    /\ sfailed = [j \in SendJobs |-> 0]
    /\ slast = [j \in SendJobs |-> "none"]
    /\ lastInvokeAt = {}

\* ClickGuard.__init__: no locks
GuardInit ==
    /\ locks = [key \in Keys |-> {}]
    /\ grantedAt = [key \in Keys |-> {}]
    /\ grants = [key \in Keys |-> 0]
    /\ lastClick = [op |-> "none", key |-> <<0, 0>>, result |-> FALSE]

CoreInit ==
    /\ now = 0
    /\ meetings \in [Meetings -> [status : {"planned"}, scheduled_at : SchedTimes,
                                  chat_id : Chats \cup {NoChat},
                                  organizer_id : {Organizer}]]
    /\ meetings["m1"].chat_id # NoChat
    /\ meetings["m1"].scheduled_at = 3
    /\ meetings["m2"].scheduled_at = 4
    /\ userLead = [u \in Users |-> DefaultUserLeadTime]
    /\ ledger = {}
    /\ scheduler = "none"
    /\ refreshJob = FALSE
    /\ timers = [id \in Identities |-> NoTimer]
    /\ queue = <<>>
    /\ pending = {}
    /\ worker = [state |-> "idle", job |-> NoJob, stale |-> FALSE]
    /\ sentCount = [id \in Identities |-> 0]
    /\ markCount = [id \in Identities |-> 0]
    /\ staleMarks = {}
    /\ restarted = FALSE
    /\ exhausted = {}
    /\ SenderInit
    /\ GuardInit

\* the inputs of one _resolve_lead_times call: the organizer's row in users, the
\* chat's lead times after ensure_chat_defaults (never empty, ascending), the
\* service's own _lead_times (never empty, ascending)
RECURSIVE Ascending(_)
Ascending(S) ==
    IF S = {} THEN <<>>
    ELSE LET least == CHOOSE x \in S : \A y \in S : x <= y
         IN  <<least>> \o Ascending(S \ {least})
LeadTuples == {Ascending(S) : S \in SUBSET Leads \ {{}}}
LeadInputs ==
    [row : {{}} \cup {{v} : v \in Leads}, chat_lead_times : LeadTuples,
     lead_times : LeadTuples]

LeadInit ==
    /\ leadIn = [row |-> {}, chat_lead_times |-> ChatLeadTimes,
                 lead_times |-> ServiceLeadTimes]
    /\ leadOut = {}

\* ------------------------------------ telegram_meeting_bot TelegramSender
\* telegram_meeting_bot.services.telegram: safe_tg_call queues a TelegramCall,
\* worker_tick takes it and _execute_with_retry runs call.func in a loop
Profiles == {"ui", "heavy"}
\* NetworkConfig.ui_retries, NetworkConfig.heavy_max_retries
UiRetries == 2
HeavyMaxRetries == 5
RetriesOf(profile) == IF profile = "ui" THEN UiRetries ELSE HeavyMaxRetries

\* for attempt in range(retries + 1)
LoopLength_short(retries) == retries
LoopLength(retries) == retries + 1

\* how one "await call.func(...)" can end
TgOutcomes ==
    {"ok", "timeout", "network", "retry_after", "not_modified", "bad_request",
     "unexpected"}

SafeCallInit ==
    /\ tg = [pc |-> "none", profile |-> "ui", attempt |-> 0, future |-> "none",
             last_exc |-> "none"]
    /\ tgInvoked = 0
    /\ tgFails = 0
    /\ tgOther = FALSE

\* safe_tg_call: put the call on the queue and await its future
safe_tg_call(profile) ==
    /\ tg.pc = "none"
    /\ tg' = [tg EXCEPT !.pc = "queued", !.profile = profile, !.future = "pending"]
    /\ UNCHANGED <<now, reminderVars, senderVars, guardVars, extraVars, hpc, leadVars, profVars,
                   tgInvoked, tgFails, tgOther>>

\* the loop of _execute_with_retry is left: return, or raise last_exc, and
\* _process_call resolves the future
LeaveLoop(call) ==
    [call EXCEPT !.pc = "done",
                 !.future = IF call.last_exc # "none" THEN call.last_exc ELSE "none_result"]

\* worker_tick -> _process_call (op_id not seen before) -> _execute_with_retry reaches
\* the first pass of its loop
worker_tick ==
    /\ tg.pc = "queued"
    /\ tg' = IF 0 < LoopLength(RetriesOf(tg.profile))
             THEN [tg EXCEPT !.pc = "try", !.attempt = 0]
             ELSE LeaveLoop(tg)
    /\ UNCHANGED <<now, reminderVars, senderVars, guardVars, extraVars, hpc, leadVars, profVars,
                   tgInvoked, tgFails, tgOther>>

\* one pass of the loop up to the end of call.func: return, break, or sleep
TgCallEnds(o) ==
    /\ tg.pc = "try"
    /\ tgInvoked' = tgInvoked + 1
    /\ tgFails' = IF o \in {"timeout", "network"} THEN tgFails + 1 ELSE tgFails
    /\ tgOther' = (tgOther \/ o \notin {"ok", "timeout", "network"})
    /\ tg' = IF o = "ok" THEN [tg EXCEPT !.pc = "done", !.future = "result"]
             ELSE IF o = "not_modified" THEN [tg EXCEPT !.pc = "done", !.future = "none_result"]
             ELSE IF o \in {"bad_request", "unexpected"}
             THEN LeaveLoop([tg EXCEPT !.last_exc = o])
             ELSE [tg EXCEPT !.pc = "sleep", !.last_exc = o]
    /\ UNCHANGED <<now, reminderVars, senderVars, guardVars, extraVars, hpc, leadVars, profVars>>

\* asyncio.sleep(delay) is over: the next pass, or the loop is exhausted
TgSleepEnds ==
    /\ tg.pc = "sleep"
    /\ tg' = IF tg.attempt + 1 < LoopLength(RetriesOf(tg.profile))
             THEN [tg EXCEPT !.pc = "try", !.attempt = @ + 1]
             ELSE LeaveLoop(tg)
    /\ UNCHANGED <<now, reminderVars, senderVars, guardVars, extraVars, hpc, leadVars, profVars,
                   tgInvoked, tgFails, tgOther>>

\* ------------------------------------- TelegramSender: profiles and selector
\* bot.infra.sender.TelegramSender with its two queues and workers, and the
\* ContextVar _CURRENT_QUEUE that request() reads.  Sleeps are positions of a
\* worker here; how long they last is the subject of the one-profile model above.
QueueNames == {"ui", "background"}
\* the queue argument of request(); "" stands for None
QueueArgs == {"", "ui", "background"}
\* asyncio tasks that call request(): one handles an inbound update under
\* SenderContextMiddleware, one is a background task (the reminder worker)
Tasks == {"update", "service"}
\* ContextVar("telegram_sender_queue", default="background")
DefaultQueue == "background"
\* config.reminder.retry.attempts: max_attempts of the background profile
BackgroundMaxAttempts == 3
ProfileMaxAttempts(name) == IF name = "ui" THEN ConfigMaxAttempts ELSE BackgroundMaxAttempts

\* start(): _run_worker(self._ui_queue, ..., name="ui") and
\* _run_worker(self._bg_queue, ..., name="background")
QueueOfWorker_shared(name) == "background"
QueueOfWorker(name) == name

\* request(): target = queue or _CURRENT_QUEUE.get(); "ui" goes to the ui queue,
\* anything else to the background queue
TargetQueue(queue_arg, current) ==
    LET target == IF queue_arg # "" THEN queue_arg ELSE current
    IN  IF target = "ui" THEN "ui" ELSE "background"

\* reset_queue(token): _CURRENT_QUEUE.reset(token) puts back the value the
\* matching set() replaced
reset_queue_keep(current, token) == current
reset_queue(current, token) == token

ProfWorkerIdle == [state |-> "idle", job |-> NoSendJob]

ProfInit ==
    /\ pq = [name \in QueueNames |-> <<>>]
    /\ pjobs = [j \in SendJobs |->
                  [attempts |-> 0, max_attempts |-> 0, future |-> "none", target |-> ""]]
    /\ pworker = [name \in QueueNames |-> [state |-> "none", job |-> NoSendJob]]
    /\ invokedBy = [j \in SendJobs |-> {}]
    /\ ctx = [t \in Tasks |-> DefaultQueue]
    /\ tokens = [t \in Tasks |-> <<>>]
    /\ entered = [t \in Tasks |-> {}]

\* start(): both worker tasks are created
StartProfiles ==
    /\ \E name \in QueueNames : pworker[name].state = "none"
    /\ pworker' = [name \in QueueNames |->
                      IF pworker[name].state = "none" THEN ProfWorkerIdle
                      ELSE pworker[name]]
    /\ UNCHANGED <<now, reminderVars, senderVars, guardVars, extraVars, hpc, leadVars, safecallVars,
                   pq, pjobs, invokedBy, ctx, tokens, entered>>

\* task t calls request(factory, queue=queue_arg) -> _submit on the chosen queue
ProfRequest(t, j, queue_arg) ==
    /\ pjobs[j].future = "none"
    /\ LET target == TargetQueue(queue_arg, ctx[t])
       IN  /\ pjobs' = [pjobs EXCEPT ![j] =
                            [attempts |-> 0, max_attempts |-> ProfileMaxAttempts(target),
                             future |-> "pending", target |-> target]]
           /\ pq' = [pq EXCEPT ![target] = Append(@, j)]
    /\ UNCHANGED <<now, reminderVars, senderVars, guardVars, extraVars, hpc, leadVars, safecallVars,
                   pworker, invokedBy, ctx, tokens, entered>>

\* SenderContextMiddleware.__call__ begins: token = use_queue("ui")
MiddlewareEnter(t) ==
    /\ t = "update"
    /\ tokens[t] = <<>>
    /\ tokens' = [tokens EXCEPT ![t] = <<ctx[t]>>]
    /\ ctx' = [ctx EXCEPT ![t] = "ui"]
    /\ entered' = [entered EXCEPT ![t] = {ctx[t]}]
    /\ UNCHANGED <<now, reminderVars, senderVars, guardVars, extraVars, hpc, leadVars, safecallVars,
                   pq, pjobs, pworker, invokedBy>>

\* use_queue(name) whose token is dropped: a plain _CURRENT_QUEUE.set(name), in or
\* around the handler of an update (the background task never touches the selector)
use_queue(t, name) ==
    /\ t = "update"
    /\ ctx[t] # name
    /\ ctx' = [ctx EXCEPT ![t] = name]
    /\ UNCHANGED <<now, reminderVars, senderVars, guardVars, extraVars, hpc, leadVars, safecallVars,
                   pq, pjobs, pworker, invokedBy, tokens, entered>>

\* with queue_context(name): entered inside the handler
QueueContextEnter(t, name) ==
    /\ Len(tokens[t]) = 1
    /\ tokens' = [tokens EXCEPT ![t] = Append(@, ctx[t])]
    /\ ctx' = [ctx EXCEPT ![t] = name]
    /\ UNCHANGED <<now, reminderVars, senderVars, guardVars, extraVars, hpc, leadVars, safecallVars,
                   pq, pjobs, pworker, invokedBy, entered>>

\* the with block is left: finally reset_queue(token)
QueueContextExit(t) ==
    /\ Len(tokens[t]) = 2
    /\ ctx' = [ctx EXCEPT ![t] = reset_queue(@, tokens[t][2])]
    /\ tokens' = [tokens EXCEPT ![t] = <<@[1]>>]
    /\ UNCHANGED <<now, reminderVars, senderVars, guardVars, extraVars, hpc, leadVars, safecallVars,
                   pq, pjobs, pworker, invokedBy, entered>>

\* the handler returns or raises (an exception leaves an open with block through
\* its finally first): finally reset_queue(token) of the middleware
MiddlewareExit(t) ==
    /\ tokens[t] # <<>>
    /\ ctx' = [ctx EXCEPT ![t] = reset_queue(@, tokens[t][1])]
    /\ tokens' = [tokens EXCEPT ![t] = <<>>]
    /\ UNCHANGED <<now, reminderVars, senderVars, guardVars, extraVars, hpc, leadVars, safecallVars,
                   pq, pjobs, pworker, invokedBy, entered>>

\* the worker called name: job = await queue.get(), then the rate-limit sleep or
\* straight to wait_for(job.factory())
ProfGet(name, sleeps) ==
    /\ pworker[name].state = "idle"
    /\ pq[QueueOfWorker(name)] # <<>>
    /\ LET j == Head(pq[QueueOfWorker(name)])
       IN  /\ pq' = [pq EXCEPT ![QueueOfWorker(name)] = Tail(@)]
           /\ pworker' = [pworker EXCEPT ![name] =
                              [state |-> IF sleeps THEN "rate_sleep" ELSE "calling",
                               job |-> j]]
           /\ invokedBy' = IF sleeps THEN invokedBy
                           ELSE [invokedBy EXCEPT ![j] = @ \cup {name}]
    /\ UNCHANGED <<now, reminderVars, senderVars, guardVars, extraVars, hpc, leadVars, safecallVars,
                   pjobs, ctx, tokens, entered>>

ProfRateWake(name) ==
    /\ pworker[name].state = "rate_sleep"
    /\ pworker' = [pworker EXCEPT ![name].state = "calling"]
    /\ invokedBy' = [invokedBy EXCEPT ![pworker[name].job] = @ \cup {name}]
    /\ UNCHANGED <<now, reminderVars, senderVars, guardVars, extraVars, hpc, leadVars, safecallVars,
                   pq, pjobs, ctx, tokens, entered>>

\* the invocation ends: result, TelegramBadRequest, or an error that _handle_retry takes
ProfCallEnds(name, kind) ==
    /\ pworker[name].state = "calling"
    /\ LET j == pworker[name].job
           r == _handle_retry(pjobs[j], kind, {}, FALSE)
       IN  IF kind = "ok"
           THEN /\ pjobs' = [pjobs EXCEPT ![j].future = IF @ = "pending" THEN "result" ELSE @]
                /\ pworker' = [pworker EXCEPT ![name] = ProfWorkerIdle]
           ELSE IF RoutesToRetry(kind)
           THEN /\ pjobs' = [pjobs EXCEPT ![j] = r.job]
                /\ pworker' = [pworker EXCEPT ![name] =
                                   IF r.sleep = {} THEN ProfWorkerIdle
                                   ELSE [state |-> "retry_sleep", job |-> j]]
           ELSE /\ pjobs' = [pjobs EXCEPT ![j] = _fail_job(@, kind)]
                /\ pworker' = [pworker EXCEPT ![name] = ProfWorkerIdle]
    /\ UNCHANGED <<now, reminderVars, senderVars, guardVars, extraVars, hpc, leadVars, safecallVars,
                   pq, invokedBy, ctx, tokens, entered>>

\* _handle_retry: the sleep is over, queue.put_nowait(job) on the worker's own queue
ProfRetryWake(name) ==
    /\ pworker[name].state = "retry_sleep"
    /\ pq' = [pq EXCEPT ![QueueOfWorker(name)] = Append(@, pworker[name].job)]
    /\ pworker' = [pworker EXCEPT ![name] = ProfWorkerIdle]
    /\ UNCHANGED <<now, reminderVars, senderVars, guardVars, extraVars, hpc, leadVars, safecallVars,
                   pjobs, invokedBy, ctx, tokens, entered>>

\* ------------------------------------- telegram_meeting_bot EventsService
EventIds == {"e1", "e2"}
EventStarts == {1, 2, 3}
\* lead_time_minutes passed to create_event; 0 stands for None / 0 (falsy)
EventLeadArgs == {0, 1}
\* BotConfig.default_lead_time_minutes (30 minutes, two ticks)
DefaultLeadMinutes == 2
EventsMaxTime == 3
NoEvent == [exists |-> FALSE, starts_at |-> 0, lead_time_minutes |-> 0,
            cancelled |-> FALSE, last_fired_at |-> {}]

EventsInit ==
    /\ events = [e \in EventIds |-> NoEvent]
    /\ evOrder = <<>>
    /\ due = <<>>
    /\ dueCall = FALSE

\* _make_draft: lead_time_minutes or self._default_lead
DraftLead(lead_time_minutes) ==
    IF lead_time_minutes = 0 THEN DefaultLeadMinutes ELSE lead_time_minutes

\* last_fired_at is {} for None and {t} for a datetime
FiredBefore_inclusive(last_fired_at, remind_at) ==
    last_fired_at = {} \/ \A f \in last_fired_at : f <= remind_at
FiredBefore(last_fired_at, remind_at) ==
    last_fired_at = {} \/ \A f \in last_fired_at : f < remind_at

\* the body of the loop of due_events for one event
IsDue(event, t) ==
    IF event.cancelled THEN FALSE
    ELSE LET remind_at == event.starts_at - event.lead_time_minutes
         IN  remind_at <= t /\ FiredBefore(event.last_fired_at, remind_at)

\* for event in self._events.values(): ... due.append(event)
RECURSIVE DueLoop(_, _, _)
DueLoop(order, ev, t) ==
    IF order = <<>> THEN <<>>
    ELSE IF IsDue(ev[Head(order)], t)
         THEN <<Head(order)>> \o DueLoop(Tail(order), ev, t)
         ELSE DueLoop(Tail(order), ev, t)

\* the events have different creators and rooms, so _check_conflicts finds nothing
create_event(e, starts_at, lead_time_minutes) ==
    /\ ~events[e].exists
    /\ events' = [events EXCEPT ![e] = [exists |-> TRUE, starts_at |-> starts_at,
                                        lead_time_minutes |-> DraftLead(lead_time_minutes),
                                        cancelled |-> FALSE, last_fired_at |-> {}]]
    /\ evOrder' = Append(evOrder, e)
    /\ due' = <<>>
    /\ dueCall' = FALSE
    /\ UNCHANGED <<now, reminderVars, senderVars, guardVars, leadVars,
                   safecallVars, profVars, deliverVars, auxVars, hpc>>

cancel_event(e) ==
    /\ events[e].exists
    /\ events' = [events EXCEPT ![e].cancelled = TRUE]
    /\ due' = <<>>
    /\ dueCall' = FALSE
    /\ UNCHANGED <<now, evOrder, reminderVars, senderVars, guardVars,
                   leadVars, safecallVars, profVars, deliverVars, auxVars, hpc>>

reschedule_event(e, new_time) ==
    /\ events[e].exists
    /\ events' = [events EXCEPT ![e].starts_at = new_time, ![e].last_fired_at = {}]
    /\ due' = <<>>
    /\ dueCall' = FALSE
    /\ UNCHANGED <<now, evOrder, reminderVars, senderVars, guardVars,
                   leadVars, safecallVars, profVars, deliverVars, auxVars, hpc>>

\* repeat = "none": only last_fired_at changes
mark_fired(e) ==
    /\ events[e].exists
    /\ events' = [events EXCEPT ![e].last_fired_at = {now}]
    /\ due' = <<>>
    /\ dueCall' = FALSE
    /\ UNCHANGED <<now, evOrder, reminderVars, senderVars, guardVars,
                   leadVars, safecallVars, profVars, deliverVars, auxVars, hpc>>

due_events ==
    /\ due' = DueLoop(evOrder, events, now)
    /\ dueCall' = TRUE
    /\ UNCHANGED <<now, events, evOrder, reminderVars, senderVars, guardVars, leadVars,
                   safecallVars, profVars, deliverVars, auxVars, hpc>>

EventsTick ==
    /\ now < EventsMaxTime
    /\ now' = now + 1
    /\ due' = <<>>
    /\ dueCall' = FALSE
    /\ UNCHANGED <<events, evOrder, reminderVars, senderVars, guardVars, leadVars,
                   safecallVars, profVars, deliverVars, auxVars, hpc>>

\* ------------------------------------------- ReminderService.dispatch_due_events
\* telegram_meeting_bot.services.reminders: one run of the scheduler's reminder job.
\* How the awaited safe_tg_call of _handle_event can end: the send returned a Message
\* ("result"), the call was dropped as a duplicate op_id and resolved with None
\* ("none"), or _execute_with_retry raised and the future carries the exception
SendResults == {"result", "none", "raises"}
NoSend == [e |-> "none", outcome |-> "none"]

DispatchInit == disp = [pc |-> "idle", list |-> <<>>, pos |-> 0, last |-> NoSend]

\* if success:
Truthy_not_raised(success) == success # "raises"
Truthy(success) == success = "result"

\* due_events = await self._events.due_events(); if not due_events: return;
\* otherwise _handle_event(due_events[0]) runs up to its safe_tg_call
dispatch_due_events ==
    /\ disp.pc = "idle"
    /\ LET due_events_ == DueLoop(evOrder, events, now)
       IN  disp' = IF due_events_ = <<>> THEN [disp EXCEPT !.list = <<>>, !.pos = 0]
                   ELSE [disp EXCEPT !.pc = "sending", !.list = due_events_, !.pos = 1]
    /\ UNCHANGED <<now, eventVars, reminderVars, senderVars, guardVars, leadVars,
                   safecallVars, profVars, deliverVars, lockVars, cbVars, dedupVars,
                   handlerVars>>

\* the run after _handle_event returned: asyncio.sleep(0.3), then the next event of
\* the list, or the end of the loop
AfterEvent(d) ==
    IF d.pos < Len(d.list) THEN [d EXCEPT !.pos = @ + 1]
    ELSE [d EXCEPT !.pc = "idle"]

\* safe_tg_call ends for the event being handled.  A result that is truthy is
\* followed by mark_fired(event.id) (repeat = "none": last_fired_at = now); an
\* exception leaves _handle_event and dispatch_due_events, neither of which has a
\* try block, so the run ends there
HandleEventEnds(outcome) ==
    /\ disp.pc = "sending"
    /\ LET e == disp.list[disp.pos]
           seen == [disp EXCEPT !.last = [e |-> e, outcome |-> outcome]]
       IN  /\ events' = IF outcome # "raises" /\ Truthy(outcome)
                         THEN [events EXCEPT ![e].last_fired_at = {now}]
                         ELSE events
           /\ disp' = IF outcome = "raises" THEN [seen EXCEPT !.pc = "idle"]
                       ELSE AfterEvent(seen)
    /\ due' = <<>>
    /\ dueCall' = FALSE
    /\ UNCHANGED <<now, evOrder, reminderVars, senderVars, guardVars, leadVars,
                   safecallVars, profVars, deliverVars, lockVars, cbVars, dedupVars,
                   handlerVars>>

\* ------------------------------------------- _deliver on one dequeued job
\* what _deliver reads when the worker hands it a job: the row get_meeting returns
\* (none, or a meeting of any status in any chat), the job, whether the ledger
\* holds the identity, the pending set (the job's identity is in it) and the clock
DeliverChats == {1, 2}
MissingMeeting == [status |-> "missing", chat_id |-> NoChat, scheduled_at |-> 0,
                   organizer_id |-> Organizer]
DeliverMeetings ==
    {MissingMeeting} \cup
    [status : {"planned", "moved", "canceled"}, chat_id : {NoChat} \cup DeliverChats,
     scheduled_at : 0 .. 4, organizer_id : {Organizer}]
DeliverJobs == [id : {"m1"} \X DeliverChats \X Leads, attempts : 0 .. MaxAttempts - 1]
OtherIdentity == <<"m2", 1, 0>>
DeliverInputs ==
    {i \in [meeting : DeliverMeetings, job : DeliverJobs, sent : BOOLEAN,
            pending : SUBSET ({OtherIdentity} \cup {j.id : j \in DeliverJobs}),
            t : 0 .. MaxTime] :
        /\ i.job.id \in i.pending
        /\ i.pending \subseteq {i.job.id, OtherIdentity}}

DeliverInit ==
    /\ deliverIn = [meeting |-> MissingMeeting, job |-> NewJob("m1", 1, 0),
                    sent |-> FALSE, pending |-> {<<"m1", 1, 0>>}, t |-> 0]
    /\ deliverOut = {}

\* _run_worker: success = await self._deliver(job), up to the transport call
DeliverJob ==
    /\ deliverOut = {}
    /\ LET meeting == deliverIn.meeting
           job == deliverIn.job
           outcome == _deliver_check(meeting, job, deliverIn.sent, deliverIn.t)
       IN  deliverOut' =
               {[transport |-> outcome = "send",
                 marked |-> deliverIn.sent,
                 timer |-> IF outcome = "future"
                           THEN _schedule_future_job([t |-> [id \in {job.id} |-> NoTimer]],
                                    "running", job.id,
                                    meeting.scheduled_at - job.id[3]).t[job.id]
                           ELSE NoTimer,
                 pending |-> IF outcome = "send" THEN deliverIn.pending
                             ELSE deliverIn.pending \ {job.id}]}
    /\ UNCHANGED <<now, deliverIn, reminderVars, senderVars, guardVars, leadVars,
                   safecallVars, profVars, eventVars, auxVars,
                   hpc>>

\* ------------------------------------------------------------ bot.handlers
\* the handlers of bot.handlers.admin and bot.handlers.user that cancel or move a
\* meeting, as the calls they make in order; "answer" is an awaited Telegram call
\* (message.answer, callback.answer, _refresh_context), where other tasks run
Handlers == {"execute_command_cancel", "handle_cancel", "handle_reschedule",
             "user_cancel_callback"}
HandlerCode(kind) ==
    CASE kind = "execute_command_cancel" -> <<"cancel_meeting", "answer">>
      [] kind = "handle_cancel" -> <<"cancel_meeting", "answer">>
      [] kind = "handle_reschedule" ->
             <<"reschedule_meeting", "answer", "send_due_reminders">>
      [] kind = "user_cancel_callback" ->
             <<"cancel_meeting", "send_due_reminders", "answer">>
NoHandler == [kind |-> "none", m |-> "none", t |-> 0, pos |-> 0]

HandlerInit == hpc = NoHandler

\* the dispatcher hands an update to the handler; the service has been started;
\* only handle_reschedule takes a new time
HandlerBegin(kind, m, t) ==
    /\ hpc = NoHandler
    /\ kind # "handle_reschedule" => t = meetings[m].scheduled_at
    /\ scheduler = "running"
    /\ meetings[m].status # "canceled"
    /\ hpc' = [kind |-> kind, m |-> m, t |-> t, pos |-> 1]
    /\ UNCHANGED <<now, reminderVars, senderVars, guardVars, quietVars>>

\* the next call of the running handler
HandlerStep ==
    /\ hpc # NoHandler
    /\ hpc.pos <= Len(HandlerCode(hpc.kind))
    /\ hpc' = [hpc EXCEPT !.pos = @ + 1]
    /\ LET op == HandlerCode(hpc.kind)[hpc.pos]
       IN  CASE op = "cancel_meeting" -> MeetingStorage_cancel_meeting(hpc.m)
             [] op = "reschedule_meeting" ->
                    MeetingStorage_reschedule_meeting(hpc.m, hpc.t)
             [] op = "send_due_reminders" -> send_due_reminders
             [] op = "answer" ->
                    UNCHANGED <<now, reminderVars, senderVars, guardVars, quietVars>>

\* the handler returns
HandlerEnd ==
    /\ hpc # NoHandler
    /\ hpc.pos > Len(HandlerCode(hpc.kind))
    /\ hpc' = NoHandler
    /\ UNCHANGED <<now, reminderVars, senderVars, guardVars, quietVars>>

\* ---- Init of the later parts, shared by every specification
AuxInit ==
    /\ refreshLock = FALSE
    /\ refreshRaised = FALSE
    /\ CallbackInit
    /\ DispatchInit
    /\ DedupInit

Init ==
    /\ CoreInit
    /\ LeadInit
    /\ SafeCallInit
    /\ ProfInit
    /\ EventsInit
    /\ DeliverInit
    /\ HandlerInit
    /\ AuxInit

\* get_user_settings(meeting.organizer_id), then the body of _resolve_lead_times
ResolveLeads ==
    /\ leadOut = {}
    /\ leadOut' = {ResolveByUserLead(ensure_user_defaults(leadIn.row, DefaultUserLeadTime),
                                     leadIn.chat_lead_times, leadIn.lead_times)}
    /\ UNCHANGED <<now, reminderVars, senderVars, guardVars, extraVars, hpc, leadIn, safecallVars,
                   profVars>>

Next ==
    \/ Tick
    \/ start
    \/ Restart
    \/ refresh_schedule
    \/ \E m \in Meetings : cancel_meeting(m)
    \/ \E m \in Meetings, t \in SchedTimes : reschedule_meeting(m, t)
    \/ \E m \in Meetings, t \in SchedTimes : update_meeting(m, t)
    \/ \E u \in Users, lead \in UserLeadChoices : save_user_settings(u, lead)
    \/ \E id \in Identities : _handle_scheduled_job(id[1], id[2], id[3])
    \/ WorkerTake
    \/ SendOk
    \/ SendFail
    \/ RetryWake

Spec == Init /\ [][Next]_vars

\* one component on its own: the other two stay as constructed
InitOne ==
    /\ Init
    /\ meetings["m2"].chat_id \in Chats

\* the sender on its own
NextSender ==
    \/ SenderTick
    \/ TelegramSender_start
    \/ TelegramSender_stop
    \/ \E j \in SendJobs, max_attempts \in RequestMaxAttempts : request(j, max_attempts)
    \/ SenderGet
    \/ SenderRateWake
    \/ \E o \in Outcomes : SenderCallEnds(o)
    \/ SenderRetryWake

SpecSender == InitOne /\ [][NextSender]_vars

\* the sender between start() and stop(), with the event loop running: a ready worker
\* is resumed, a sleep ends when its time has come, and wait_for ends the call at its
\* deadline at the latest
TimeoutOutcome == [kind |-> "timeout", retry_after |-> {}]

NextSenderLive ==
    \/ SenderTickDue
    \/ TelegramSender_start
    \/ \E j \in SendJobs, max_attempts \in RequestMaxAttempts : request(j, max_attempts)
    \/ SenderGet
    \/ SenderRateWake
    \/ \E o \in Outcomes : SenderCallEnds(o)
    \/ SenderRetryWake

SpecSenderLive ==
    /\ InitOne
    /\ [][NextSenderLive]_vars
    /\ WF_vars(SenderTickDue)
    /\ WF_vars(SenderGet)
    /\ WF_vars(SenderRateWake)
    /\ WF_vars(SenderRetryWake)
    /\ WF_vars(SenderCallEnds(TimeoutOutcome))

\* the service through start() and stop(), over a database nobody edits
NextLife ==
    \/ Tick
    \/ start
    \/ stop
    \/ refresh_schedule
    \/ \E id \in Identities : _handle_scheduled_job(id[1], id[2], id[3])
    \/ WorkerTake
    \/ SendOk
    \/ SendFailRecorded
    \/ RetryWake

SpecLife == Init /\ [][NextLife]_vars

\* the running service (no stop()) with the event loop running: the worker is resumed
\* when the queue holds a job, bot.send_message (called with a timeout) returns or
\* raises, and the backoff sleep ends
NextWork ==
    \/ Tick
    \/ start
    \/ refresh_schedule
    \/ \E m \in Meetings : cancel_meeting(m)
    \/ \E m \in Meetings, t \in SchedTimes : reschedule_meeting(m, t)
    \/ \E id \in Identities : _handle_scheduled_job(id[1], id[2], id[3])
    \/ WorkerTake
    \/ SendOk
    \/ SendFail
    \/ RetryWake

SpecWork ==
    /\ Init
    /\ [][NextWork]_vars
    /\ WF_vars(WorkerTake)
    /\ WF_vars(SendOk \/ SendFail)
    /\ WF_vars(RetryWake)

\* the running service over a store that can raise inside refresh_schedule()
NextStoreFails ==
    \/ Tick
    \/ start
    \/ \E fail \in 0..Cardinality(Meetings) : refresh_schedule_locked(fail)
    \/ \E id \in Identities : _handle_scheduled_job(id[1], id[2], id[3])
    \/ WorkerTake
    \/ SendOk
    \/ SendFail
    \/ RetryWake

SpecStoreFails == InitOne /\ [][NextStoreFails]_vars

\* the running service over a store that can raise inside _deliver
NextWorkerFails ==
    \/ Tick
    \/ start
    \/ refresh_schedule
    \/ \E id \in Identities : _handle_scheduled_job(id[1], id[2], id[3])
    \/ WorkerTake
    \/ WorkerTakeRaises
    \/ SendOk
    \/ SendOkMarkRaises
    \/ SendFail
    \/ RetryWake

SpecWorkerFails == InitOne /\ [][NextWorkerFails]_vars

\* the two profiles of the sender and the tasks that submit to them
NextProfiles ==
    \/ StartProfiles
    \/ \E t \in Tasks, j \in SendJobs, queue_arg \in QueueArgs :
            ProfRequest(t, j, queue_arg)
    \/ \E t \in Tasks : MiddlewareEnter(t)
    \/ \E t \in Tasks, name \in QueueNames : use_queue(t, name)
    \/ \E t \in Tasks, name \in QueueNames : QueueContextEnter(t, name)
    \/ \E t \in Tasks : QueueContextExit(t)
    \/ \E t \in Tasks : MiddlewareExit(t)
    \/ \E name \in QueueNames, sleeps \in BOOLEAN : ProfGet(name, sleeps)
    \/ \E name \in QueueNames : ProfRateWake(name)
    \/ \E name \in QueueNames, kind \in {"ok", "bad_request", "timeout"} :
            ProfCallEnds(name, kind)
    \/ \E name \in QueueNames : ProfRetryWake(name)

SpecProfiles == InitOne /\ [][NextProfiles]_vars

\* one call through telegram_meeting_bot's TelegramSender
NextSafeCall ==
    \/ \E profile \in Profiles : safe_tg_call(profile)
    \/ worker_tick
    \/ \E o \in TgOutcomes : TgCallEnds(o)
    \/ TgSleepEnds

SpecSafeCall == InitOne /\ [][NextSafeCall]_vars

\* lead-time resolution on its own, over every input
InitLeads ==
    /\ CoreInit
    /\ meetings["m2"].chat_id \in Chats
    /\ leadIn \in LeadInputs
    /\ leadOut = {}
    /\ SafeCallInit
    /\ ProfInit
    /\ EventsInit
    /\ DeliverInit
    /\ HandlerInit
    /\ AuxInit

NextLeads == ResolveLeads

SpecLeads == InitLeads /\ [][NextLeads]_vars

\* the click guard on its own
NextGuard ==
    \/ GuardTick
    \/ \E key \in Keys : acquire(key)
    \/ \E key \in Keys : release(key)
    \/ cleanup

SpecGuard == InitOne /\ [][NextGuard]_vars

\* the reminder job over events that handlers create, move and cancel meanwhile
NextDispatch ==
    \/ EventsTick
    \/ \E e \in EventIds, t \in EventStarts, l \in EventLeadArgs : create_event(e, t, l)
    \/ \E e \in EventIds : cancel_event(e)
    \/ \E e \in EventIds, t \in EventStarts : reschedule_event(e, t)
    \/ dispatch_due_events
    \/ \E outcome \in SendResults : HandleEventEnds(outcome)

SpecDispatch == InitOne /\ [][NextDispatch]_vars

\* calls with repeated op_ids and overlapping worker_tick runs
NextDedup ==
    \/ DedupTick
    \/ \E k \in TgCalls, op_id \in OpIds : TgSubmit(k, op_id)
    \/ \E i \in TickRuns : _process_call(i)
    \/ \E i \in TickRuns, res \in {"result", "none_result", "exception"} :
           ExecuteEnds(i, res)

SpecDedup == InitOne /\ [][NextDedup]_vars

\* callback queries through the middleware
NextCallbacks ==
    \/ GuardTick
    \/ \E c \in Callbacks, key \in Keys \cup {NoMessage} :
           CallbackGuardMiddleware_call(c, key)
    \/ \E c \in Callbacks : HandlerReturns(c)
    \/ \E c \in Callbacks : release_later(c)

SpecCallbacks == InitOne /\ [][NextCallbacks]_vars

NextEvents ==
    \/ EventsTick
    \/ \E e \in EventIds, t \in EventStarts, l \in EventLeadArgs : create_event(e, t, l)
    \/ \E e \in EventIds : cancel_event(e)
    \/ \E e \in EventIds, t \in EventStarts : reschedule_event(e, t)
    \/ \E e \in EventIds : mark_fired(e)
    \/ due_events

SpecEvents == InitOne /\ [][NextEvents]_vars

\* _deliver over the rows and jobs it can be handed
InitDeliver ==
    /\ CoreInit
    /\ meetings["m2"].chat_id \in Chats
    /\ LeadInit
    /\ SafeCallInit
    /\ ProfInit
    /\ EventsInit
    /\ HandlerInit
    /\ AuxInit
    /\ deliverIn \in DeliverInputs
    /\ deliverOut = {}

NextDeliver == DeliverJob

SpecDeliver == InitDeliver /\ [][NextDeliver]_vars

\* the started service under the handlers that cancel or move a meeting
NextHandlers ==
    \/ Tick
    \/ start
    \/ \E kind \in Handlers, m \in Meetings, t \in SchedTimes : HandlerBegin(kind, m, t)
    \/ HandlerStep
    \/ HandlerEnd
    \/ \E m \in Meetings, c \in Chats, l \in Leads : _handle_scheduled_job(m, c, l)
    \/ WorkerTake
    \/ SendOk

SpecHandlers == Init /\ [][NextHandlers]_vars

\* ------------------------------------------------- claims on ReminderService
JobsOf(q, id) == Cardinality({i \in 1 .. Len(q) : q[i].id = id})

\* a job of this identity is queued, in its transport call or in its retry sleep
Outstanding(id) ==
    \/ JobsOf(queue, id) > 0
    \/ worker.state # "idle" /\ worker.job.id = id

\* M is not canceled, has a registered chat, L is resolved for it, due and not sent
DueUnsent(id) ==
    /\ meetings[id[1]].status # "canceled"
    /\ meetings[id[1]].chat_id = id[2]
    /\ id[2] \in Chats
    /\ id[3] \in Range(_resolve_lead_times(id[1], get_chat(id[2])))
    /\ meetings[id[1]].scheduled_at - id[3] <= now
    /\ ~is_reminder_sent(id[1], id[2], id[3])

RefreshStep == refresh_schedule \/ start

\* C1: a refresh_schedule() run puts exactly one job on the queue for every due, unsent
\* identity that has no job outstanding, and none for one whose job is still queued,
\* being sent or in its retry sleep (the second, immediate refresh adds nothing).
C1_RefreshEnqueuesOnce ==
    [][RefreshStep =>
        \A id \in Identities : DueUnsent(id) =>
            JobsOf(queue', id) = JobsOf(queue, id) + (IF Outstanding(id) THEN 0 ELSE 1)]_vars

C1_Witness ==
    \E id \in Identities :
        /\ DueUnsent(id)
        /\ scheduler = "running"
        /\ JobsOf(queue, id) = 1
        /\ id \in pending

\* C2: between two reschedules of M every identity (M, chat, L) has at most one
\* completed transport send and at most one mark_reminder_sent call.
C2_AtMostOnceSent ==
    \A id \in Identities : sentCount[id] <= 1 /\ markCount[id] <= 1

\* C3: no step (a refresh after a restart included) enqueues a job for, arms a timer
\* for, or starts a transport call for an identity that the ledger already holds.
C3_NoRefireOfLedgered ==
    [][\A id \in Identities : id \in ledger =>
        /\ JobsOf(queue', id) <= JobsOf(queue, id)
        /\ (timers'[id] # NoTimer => timers'[id] = timers[id])
        /\ (worker'.state = "sending" /\ worker'.job.id = id
                => worker.state = "sending" /\ worker.job.id = id)]_vars

\* the process came up again (nothing pending, nothing armed) with a delivered reminder
\* on record whose meeting is still active and past its due instant
C3_Witness ==
    \E id \in Identities :
        /\ id \in ledger
        /\ restarted
        /\ scheduler = "running"
        /\ pending = {}
        /\ sentCount[id] = 1
        /\ meetings[id[1]].status # "canceled"
        /\ meetings[id[1]].scheduled_at - id[3] <= now
        /\ id[3] \in Range(_resolve_lead_times(id[1], get_chat(id[2])))

\* C4: reschedule_meeting, update_meeting(scheduled_at) and cancel_meeting leave
\* is_reminder_sent false for every (chat, lead) of that meeting and do not touch the
\* ledger entries of the other meetings.
C4_MutationClearsLedger ==
    [][\A m \in Meetings :
        (\/ cancel_meeting(m)
         \/ \E t \in SchedTimes : reschedule_meeting(m, t)
         \/ \E t \in SchedTimes : update_meeting(m, t))
        => /\ \A c \in Chats, l \in Leads : ~is_reminder_sent(m, c, l)'
           /\ \A id \in Identities : id[1] # m => (id \in ledger' <=> id \in ledger)]_vars

\* a canceled meeting whose reminder had been marked and is no longer on record, while
\* the other meeting's entry is still there
C4_Witness ==
    \E id \in Identities, other \in Identities :
        /\ meetings[id[1]].status = "canceled"
        /\ markCount[id] = 1
        /\ ~is_reminder_sent(id[1], id[2], id[3])
        /\ other[1] # id[1]
        /\ other \in ledger

\* C5: a send that belongs to the old schedule never leaves (M, chat, L) marked sent
\* for the new schedule.
C5_NoStaleMark ==
    \A id \in Identities : id \in ledger => id \notin staleMarks

\* the scenario's meeting: active, in a chat whose lead times are (0, 600, 1800), its
\* organizer never chose a lead time of their own, it starts 30 minutes from now and
\* nothing of it is sent, queued or in flight
ScenarioMeeting(m) ==
    /\ meetings[m].status # "canceled"
    /\ meetings[m].chat_id \in Chats
    /\ get_chat(meetings[m].chat_id).lead_times = <<0, 1, 3>>
    /\ userLead[meetings[m].organizer_id] = DefaultUserLeadTime
    /\ meetings[m].scheduled_at = now + 3
    /\ \A l \in Leads :
        /\ ~is_reminder_sent(m, meetings[m].chat_id, l)
        /\ ~Outstanding(<<m, meetings[m].chat_id, l>>)

C12_OneJobPerIdentity ==
    \A id \in Identities :
        LET held == IF worker.state # "idle" /\ worker.job.id = id THEN 1 ELSE 0
        IN  /\ JobsOf(queue, id) + held <= 1
            /\ JobsOf(queue, id) + held = 1 => id \in pending

\* a job came back to the queue after a failed send and its retry sleep, and it is the
\* only job of its identity although the identity is still due and unsent
C12_Witness ==
    \E i \in 1 .. Len(queue) :
        /\ queue[i].attempts >= 1
        /\ JobsOf(queue, queue[i].id) = 1
        /\ DueUnsent(queue[i].id)
        /\ worker.state = "idle"

\* C13: while the service is started with check_interval > 0 the "reminder-refresh"
\* interval job is registered, after start() and after every refresh_schedule() run.
C13_RefreshStaysRegistered ==
    (scheduler = "running" /\ CheckInterval > 0) => refreshJob

C16_StopLeavesNothing ==
    [][/\ stop =>
            /\ worker'.state = "cancelled"
            /\ queue' = <<>>
            /\ pending' = {}
            /\ \A id \in Identities : timers'[id] = NoTimer
       /\ scheduler = "stopped" =>
            /\ worker'.state # "sending"
            /\ \A id \in Identities : ~ENABLED _handle_scheduled_job(id[1], id[2], id[3])
      ]_vars

\* C22: no reminder is sent for a canceled meeting: when the worker takes a job
\* from the queue (first delivery or after a retry sleep, enqueued by a refresh or
\* by a date job) and the meeting is canceled, no transport call starts
C22_NoSendForCanceled ==
    [][(worker.state # "sending" /\ worker'.state = "sending")
           => meetings[worker'.job.id[1]].status # "canceled"]_vars

\* the worker lets go of the job of this identity for good: the send succeeded, the
\* last attempt of the budget failed, or the job was dropped when it was dequeued
JobEnds(id) ==
    \/ worker.state = "sending" /\ worker.job.id = id /\ worker'.state = "idle"
    \/ /\ worker.state = "idle" /\ worker'.state = "idle"
       /\ queue # <<>> /\ Head(queue).id = id /\ queue' = Tail(queue)

\* C23: while the service is running the pending set is the set of identities with
\* a job in the queue, in its transport call or in its retry sleep
C23_PendingIsOutstanding ==
    scheduler = "running" => pending = {id \in Identities : Outstanding(id)}

\* C23: while the service is running an identity leaves the pending set exactly
\* when its job ends (success, drop at dequeue, attempt budget exhausted)
C23_LeavesWhenJobEnds ==
    [][(scheduler = "running" /\ scheduler' = "running")
           => \A id \in Identities :
                  (id \in pending /\ id \notin pending') <=> JobEnds(id)]_vars

\* C24: a failed transport call adds one to the attempts of the job; at max_attempts
\* the job is dropped (identity out of the pending set, ledger untouched, nothing
\* put on the queue), below it the job sleeps and is then put back at the end of
\* the queue with its identity still pending; a job never starts a transport call
\* with max_attempts failures behind it, so it causes at most max_attempts calls
C24_AttemptBudget ==
    /\ [](worker.state = "sending" => worker.job.attempts < MaxAttempts)
    /\ [][SendFailRecorded =>
            /\ ledger' = ledger
            /\ queue' = queue
            /\ IF worker.job.attempts + 1 >= MaxAttempts
               THEN /\ worker'.state = "idle"
                    /\ worker.job.id \notin pending'
               ELSE /\ worker'.state = "sleeping"
                    /\ worker'.job.id = worker.job.id
                    /\ worker'.job.attempts = worker.job.attempts + 1
                    /\ worker.job.id \in pending']_vars
    /\ [][RetryWake =>
            /\ queue' = Append(queue, worker.job)
            /\ worker.job.id \in pending'
            /\ ledger' = ledger]_vars

\* a job was dropped after max_attempts failed calls: not pending, not marked
C24_Witness ==
    \E id \in exhausted :
        /\ id \notin pending
        /\ id \notin ledger
        /\ ~Outstanding(id)

\* C25: once a job of an identity was dropped at the attempt budget, no transport
\* call starts for that identity until the meeting is rescheduled or canceled or
\* the settings of its organizer change
C25_NoAttemptAfterExhaustion ==
    [][(worker.state # "sending" /\ worker'.state = "sending")
           => worker'.job.id \notin exhausted]_vars

\* C26: a dequeued job whose meeting is gone, whose meeting is now in another
\* chat than the job names, or whose identity the ledger already holds causes no
\* transport call and no ledger mark, and its identity leaves the pending set
\* (the other identities stay)
C26_StaleJobDropped ==
    \A out \in deliverOut :
        (\/ deliverIn.meeting.status = "missing"
         \/ deliverIn.meeting.chat_id # deliverIn.job.id[2]
         \/ deliverIn.sent)
        => /\ ~out.transport
           /\ out.marked = deliverIn.sent
           /\ out.timer = NoTimer
           /\ out.pending = deliverIn.pending \ {deliverIn.job.id}

\* a due, unsent job of a meeting that now belongs to another chat was dropped
C26_Witness ==
    \E out \in deliverOut :
        /\ deliverIn.meeting.status = "planned"
        /\ deliverIn.meeting.chat_id \in DeliverChats \ {deliverIn.job.id[2]}
        /\ deliverIn.meeting.scheduled_at - deliverIn.job.id[3] <= deliverIn.t
        /\ ~deliverIn.sent
        /\ OtherIdentity \in out.pending
        /\ deliverIn.job.id \notin out.pending
        /\ ~out.transport

\* C27: a dequeued job whose lead time is not (any more) among the lead times
\* resolved for its meeting starts no transport call
C27_DropsUnresolvedLead ==
    [][(worker.state # "sending" /\ worker'.state = "sending")
           => worker'.job.id[3] \in
                  Range(_resolve_lead_times(worker'.job.id[1],
                                            get_chat(worker'.job.id[2])))]_vars

\* M is not canceled, has the registered chat of the identity, L is resolved for
\* it, the identity is not marked sent and its due instant is still ahead
Armable(id) ==
    /\ meetings[id[1]].status # "canceled"
    /\ meetings[id[1]].chat_id = id[2]
    /\ id[2] \in Chats
    /\ id[3] \in Range(_resolve_lead_times(id[1], get_chat(id[2])))
    /\ ~is_reminder_sent(id[1], id[2], id[3])
    /\ meetings[id[1]].scheduled_at - id[3] > now

\* C28: when refresh_schedule() completes (start() ends with one), the date jobs
\* are exactly those of the identities of a non-canceled meeting in a registered
\* chat with a resolved lead time, not marked sent and due later than now; each
\* identity has at most one, set to the meeting's current scheduled_at - L
C28_TimersAfterRefresh ==
    [][RefreshStep =>
          \A id \in Identities :
              timers'[id] = IF Armable(id)
                            THEN meetings[id[1]].scheduled_at - id[3]
                            ELSE NoTimer]_vars

\* a moved meeting whose job is still queued has its date job at the new due
\* instant, and a canceled meeting in a registered chat has none
C28_Witness ==
    /\ \E id \in Identities :
           /\ meetings[id[1]].status = "moved"
           /\ JobsOf(queue, id) > 0
           /\ timers[id] = meetings[id[1]].scheduled_at - id[3]
           /\ timers[id] > now
    /\ \E m \in Meetings :
           /\ meetings[m].status = "canceled"
           /\ meetings[m].chat_id \in Chats
           /\ \A id \in Identities : id[1] = m => timers[id] = NoTimer

\* C29: when a handler that canceled or moved a meeting returns, no date job of a
\* canceled meeting is armed and every date job of a moved meeting is set to its
\* current scheduled_at - L (send_due_reminders ran after the store was changed)
C29_NoStaleTimerAfterHandler ==
    [][HandlerEnd =>
          \A id \in Identities :
              (id[1] = hpc.m /\ timers[id] # NoTimer)
              => /\ meetings[id[1]].status # "canceled"
                 /\ timers[id] = meetings[id[1]].scheduled_at - id[3]]_vars

\* C30: the worker starts a transport call only for a job whose due instant
\* scheduled_at - L has come; for a dequeued job (meeting there, same chat, not
\* marked sent) whose due instant is still ahead it makes no call, arms the date
\* job of the identity for that instant and takes the identity out of the pending set
C30_NeverBeforeDue ==
    \A out \in deliverOut :
        LET due_at == deliverIn.meeting.scheduled_at - deliverIn.job.id[3]
        IN  /\ out.transport => due_at <= deliverIn.t
            /\ (/\ deliverIn.meeting.status # "missing"
                /\ deliverIn.meeting.chat_id = deliverIn.job.id[2]
                /\ ~deliverIn.sent
                /\ due_at > deliverIn.t)
               => /\ ~out.transport
                  /\ out.timer = due_at
                  /\ out.pending = deliverIn.pending \ {deliverIn.job.id}

\* a job of a moved meeting was dequeued before its new due instant and re-armed
C30_Witness ==
    \E out \in deliverOut :
        /\ deliverIn.meeting.status = "moved"
        /\ deliverIn.meeting.chat_id = deliverIn.job.id[2]
        /\ ~deliverIn.sent
        /\ out.timer = deliverIn.meeting.scheduled_at - deliverIn.job.id[3]
        /\ out.timer > deliverIn.t
        /\ ~out.transport
        /\ deliverIn.job.id \notin out.pending

\* the same on the running service: no transport call starts before the due instant
NeverBeforeDueInService ==
    [][(worker.state # "sending" /\ worker'.state = "sending")
           => meetings[worker'.job.id[1]].scheduled_at - worker'.job.id[3] <= now]_vars

\* ------------------------------------------------ claims on TelegramSender
\* the request is over: its future is done and the job is neither queued nor with the
\* worker
JobGone(j) ==
    /\ sworker.job # j
    /\ \A i \in 1 .. Len(sq) : sq[i] # j

RetryableExcs == TransientKinds \cup {"retry_after"}

\* C7: a request that fails transiently N < max_attempts times and then succeeds has had
\* exactly N + 1 invocations and its future holds the result; a request that keeps
\* failing transiently has had exactly max_attempts invocations and its future holds
\* the last error.  A finished request is never invoked again.
C7_InvocationsMatchFailures ==
    \A j \in SendJobs :
        /\ sjobs[j].future = "result" =>
                /\ sinvoked[j] = sfailed[j] + 1
                /\ sfailed[j] < sjobs[j].max_attempts
                /\ JobGone(j)
        /\ sjobs[j].future \in RetryableExcs =>
                /\ sinvoked[j] = sjobs[j].max_attempts
                /\ sfailed[j] = sjobs[j].max_attempts
                /\ sjobs[j].future = slast[j]
                /\ JobGone(j)

\* one request succeeded on its third invocation, the other used up its budget of two
C7_Witness ==
    \E j, k \in SendJobs :
        /\ sjobs[j].future = "result"
        /\ sfailed[j] = 2
        /\ sinvoked[j] = 3
        /\ sjobs[k].future \in TransientKinds
        /\ sinvoked[k] = ConfigMaxAttempts

\* C8: two consecutive invocations of one profile are at least 1/rps apart, whether
\* the earlier one succeeded or failed.
C8_MinGapBetweenInvocations ==
    [][sinvoked' # sinvoked =>
        \A t \in lastInvokeAt : now - t >= MinInterval]_vars

\* C10: a request that got TelegramBadRequest is over at once: that invocation was its
\* last (one more than its earlier transient failures, so exactly one if there were
\* none), its future holds the error and the job is not queued again.
C10_BadRequestFailsAtOnce ==
    \A j \in SendJobs :
        /\ slast[j] = "bad_request" =>
                /\ sjobs[j].future = "bad_request"
                /\ sinvoked[j] = sfailed[j] + 1
                /\ JobGone(j)
        /\ sjobs[j].future = "bad_request" => slast[j] = "bad_request"

\* a request with a budget of three attempts failed on its first invocation
C10_Witness ==
    \E j \in SendJobs :
        /\ sjobs[j].future = "bad_request"
        /\ sjobs[j].max_attempts = 3
        /\ sinvoked[j] = 1

\* the number of times job j stands in the profile's queue
QueuedTimes(j) == Cardinality({i \in DOMAIN sq : sq[i] = j})

C15_StopResolvesEveryFuture ==
    [][TelegramSender_stop =>
        \A j \in SendJobs : sjobs[j].future = "pending" => sjobs'[j].future # "pending"]_vars

\* C19: every request submitted to a started sender eventually has its future resolved,
\* even if the underlying call never returns (wait_for abandons it at the deadline and
\* that counts as a transient failure), and no request is invoked more than
\* max_attempts times.
C19_EveryRequestResolved ==
    /\ \A j \in SendJobs :
            (sjobs[j].future = "pending" /\ sworker.state # "none")
                ~> (sjobs[j].future # "pending")
    /\ [](\A j \in SendJobs :
            sjobs[j].future # "none" => sinvoked[j] <= sjobs[j].max_attempts)

\* one request timed out on every attempt of its budget and failed with the timeout;
\* the worker went on and the other request got its result
C19_Witness ==
    \E j, k \in SendJobs :
        /\ sjobs[j].future = "timeout"
        /\ sfailed[j] = sjobs[j].max_attempts
        /\ sinvoked[j] = sjobs[j].max_attempts
        /\ sjobs[k].future = "result"
        /\ sworker.state = "idle"

\* ------------------------------------- claims on the profiles and the selector
OtherProfile(name) == CHOOSE other \in QueueNames : other # name

\* C17: the two profiles have separate queues and workers: a job is only ever invoked
\* by the worker of the queue it was submitted to and only ever stands in that queue;
\* and while the other worker is executing a call or sleeping (rate limit or retry
\* delay), an idle worker with a queued request can take it and a worker whose
\* rate-limit sleep is over can invoke.
C17_ProfilesIndependent ==
    /\ \A j \in SendJobs : invokedBy[j] \subseteq {pjobs[j].target}
    /\ \A name \in QueueNames :
            /\ \A i \in DOMAIN pq[name] : pjobs[pq[name][i]].target = name
            /\ pworker[OtherProfile(name)].state \in {"calling", "rate_sleep", "retry_sleep"}
                    =>  /\ (pworker[name].state = "idle" /\ pq[name] # <<>>)
                                => ENABLED ProfGet(name, FALSE)
                        /\ pworker[name].state = "rate_sleep"
                                => ENABLED ProfRateWake(name)

\* the background worker sleeps in a retry delay while the ui worker executes a ui
\* request; each job was invoked by the worker of its own queue only
C17_Witness ==
    /\ pworker["background"].state = "retry_sleep"
    /\ pworker["ui"].state = "calling"
    /\ invokedBy[pworker["background"].job] = {"background"}
    /\ invokedBy[pworker["ui"].job] = {"ui"}

\* C18: request() puts the job on the queue named by its queue argument, and without
\* one on the queue named by the caller's ambient selector, which is background for a
\* task that never set it; SenderContextMiddleware sets the selector to ui when the
\* handler call begins, and when the handler has returned or raised the selector has
\* the value it had before, whatever the handler did to it.
C18_RoutingAndScopedSelector ==
    /\ [](ctx["service"] = DefaultQueue)
    /\ [][(\A t \in Tasks, j \in SendJobs, queue_arg \in QueueArgs :
                ProfRequest(t, j, queue_arg) =>
                    LET named == IF queue_arg # "" THEN queue_arg ELSE ctx[t]
                    IN  /\ pq'[named] = Append(pq[named], j)
                        /\ pq'[OtherProfile(named)] = pq[OtherProfile(named)])
           /\ (\A t \in Tasks :
                /\ MiddlewareEnter(t) => ctx'[t] = "ui"
                /\ (tokens[t] # <<>> /\ tokens'[t] = <<>>) =>
                        \A before \in entered[t] : ctx'[t] = before)
         ]_vars

\* the middleware has finished around a handler and the selector is background again;
\* one request went to the ui queue and one to the background queue
C18_Witness ==
    /\ entered["update"] = {"background"}
    /\ tokens["update"] = <<>>
    /\ ctx["update"] = "background"
    /\ \E j, k \in SendJobs : pjobs[j].target = "ui" /\ pjobs[k].target = "background"

\* --------------------------------------------------- claims on ClickGuard
\* the key was taken by an acquire, not released since, and its window is not over
Held(key) == \E t \in grantedAt[key] : now < t + Window

\* C9: acquire(key) returns true exactly when the key is not held, that is when no
\* successful acquire of it is younger than the window and unreleased; so of two
\* acquires at the same instant one is refused, and the first acquire after a release
\* or after the window is granted.
C9_AcquireIffNotHeld ==
    [][\A key \in Keys : acquire(key) => (lastClick'.result <=> ~Held(key))]_vars

\* a second acquire at the instant of the grant was refused, on a key that had been
\* granted, given up and granted again
C9_Witness ==
    /\ lastClick.op = "acquire"
    /\ ~lastClick.result
    /\ grantedAt[lastClick.key] = {now}
    /\ grants[lastClick.key] = 2

\* ------------------------------- claims on telegram_meeting_bot TelegramSender
\* C20: a call whose function raises only timeout or network errors, k times, and then
\* returns, with k not greater than the profile's retries, yields the result after
\* exactly k + 1 invocations; a call whose function fails on all retries + 1
\* invocations raises the last exception to the caller; and after fewer failures than
\* that the function is invoked again.
C20_RetriesThenResultOrLastError ==
    LET retries == RetriesOf(tg.profile)
    IN  ~tgOther =>
            /\ tg.future = "result" => (tgInvoked = tgFails + 1 /\ tgFails <= retries)
            /\ (tg.pc = "done" /\ tg.future # "result") =>
                    /\ tgFails = retries + 1
                    /\ tgInvoked = retries + 1
                    /\ tg.future = tg.last_exc
                    /\ tg.last_exc \in {"timeout", "network"}
            /\ tg.pc \in {"try", "sleep"} => tgInvoked = tgFails
            /\ tg.pc = "try" => tgFails <= retries

\* a ui call got its result on the last invocation the profile allows
C20_Witness ==
    /\ tg.profile = "ui"
    /\ tg.future = "result"
    /\ tgFails = UiRetries
    /\ tgInvoked = UiRetries + 1
    /\ ~tgOther

\* ------------------------------------------------- claims on EventsService
\* C21: due_events() returns an event exactly when it is not cancelled, its
\* remind instant starts_at - lead_time_minutes is not after now, and it has not
\* fired since that instant (last_fired_at is None or earlier than it); so an
\* event whose lead time exceeds the time left before it starts is returned at once
C21_DueEvents ==
    dueCall =>
        /\ \A e \in EventIds :
               (e \in Range(due)) <=>
                   /\ events[e].exists
                   /\ ~events[e].cancelled
                   /\ events[e].starts_at - events[e].lead_time_minutes <= now
                   /\ \A f \in events[e].last_fired_at :
                          f < events[e].starts_at - events[e].lead_time_minutes
        /\ \A e \in EventIds :
               (/\ events[e].exists
                /\ ~events[e].cancelled
                /\ events[e].last_fired_at = {}
                /\ events[e].lead_time_minutes > events[e].starts_at - now)
               => e \in Range(due)

\* an event that starts later, with more lead time than time left, was returned, and
\* an event fired exactly at its remind instant was left out
C21_Witness ==
    /\ dueCall
    /\ \E e, o \in EventIds :
        /\ e \in Range(due)
        /\ events[e].starts_at > now
        /\ events[e].lead_time_minutes > events[e].starts_at - now
        /\ o \notin Range(due)
        /\ events[o].exists
        /\ ~events[o].cancelled
        /\ events[o].last_fired_at = {events[o].starts_at - events[o].lead_time_minutes}

\* --------------------------------------------- claims on the sender's queue order
\* C31: within one profile the worker invokes the job at the head of the queue, and
\* every put (a new request, or a job re-queued after a transient failure) goes to the
\* back: a job at position k keeps its place until the worker takes the head, then
\* moves to k - 1, so it is invoked after at most k - 1 other jobs were taken (only
\* stop() empties the queue), and jobs are invoked in the order they were put.
C31_FifoOrder ==
    [][/\ \A k \in 1..Len(sq) :
              \/ sq' = <<>> /\ sworker'.state = "none"
              \/ k <= Len(sq') /\ sq'[k] = sq[k] /\ Len(sq') >= Len(sq)
              \/ /\ sworker.state = "idle"
                 /\ sworker'.job = sq[1]
                 /\ Len(sq') = Len(sq) - 1
                 /\ k > 1 => sq'[k - 1] = sq[k]
       /\ \A j \in SendJobs :
              sinvoked'[j] > sinvoked[j] =>
                  \/ sworker.state = "idle" /\ sq # <<>> /\ sq[1] = j
                  \/ sworker.state = "rate_sleep" /\ sworker.job = j
       /\ (sworker.state = "retry_sleep" /\ sworker'.state = "idle") =>
              /\ sq' = Append(sq, sworker.job)
              /\ sq'[Len(sq')] = sworker.job]_vars

\* a job that failed once waits behind the job that was put while it was away, and the
\* other job has not been invoked yet
C31_Witness ==
    /\ sq = <<"b", "a">>
    /\ sjobs["a"].attempts = 1
    /\ sjobs["a"].future = "pending"
    /\ sinvoked["a"] = 1
    /\ sinvoked["b"] = 0

\* ------------------------------------------------ claims on the worker's progress
\* C32: while the service runs and its worker is resumed fairly, every identity in the
\* pending set leaves it (sent, dropped as stale, re-armed, or dropped at the attempt
\* budget), also while another job keeps failing and is re-queued.
C32_PendingDrains == \A id \in Identities : (id \in pending) ~> (id \notin pending)

\* one job sleeps before its retry while another identity waits in the queue
C32_Witness ==
    /\ worker.state = "sleeping"
    /\ worker.job.attempts >= 1
    /\ \E id \in pending :
           /\ id # worker.job.id
           /\ \E i \in 1..Len(queue) : queue[i].id = id

\* ------------------------------------------ claims on a store that raises
\* C33: when a store call raises inside refresh_schedule(), the refresh lock is free
\* afterwards, the worker, the scheduler and the store are as before, every queued job
\* still has its identity in the pending set, and a refresh_schedule() called next
\* leaves the state a refresh without the failure would have left.
C33_RefreshFailureContained ==
    /\ [](~refreshLock)
    /\ [](\A i \in 1..Len(queue) : queue[i].id \in pending)
    /\ [](scheduler \in {"running", "stopped"} =>
            \A i \in 1..Len(list_meetings) :
                RefreshFrom(RefreshRaised(RefreshState, scheduler, i), scheduler)
                    = RefreshFrom(RefreshState, scheduler))
    /\ [][(\E i \in 1..Cardinality(Meetings) : refresh_schedule_locked(i)) =>
              /\ worker' = worker
              /\ worker.state \in {"idle", "sending", "sleeping"}
              /\ scheduler' = scheduler
              /\ \A id \in pending' \ pending : JobsOf(queue', id) = 1]_vars

\* the last refresh raised after it had enqueued the job of one meeting and before it
\* reached another meeting that is due and unsent
C33_Witness ==
    /\ refreshRaised
    /\ ~refreshLock
    /\ \E id, other \in Identities :
           /\ id \in pending
           /\ JobsOf(queue, id) = 1
           /\ DueUnsent(other)
           /\ other \notin pending

\* C34: an exception raised while a job is re-validated, rendered or marked leaves the
\* worker task running, and the job's identity does not stay in the pending set
\* without a job: after the step the worker can take the next job and every pending
\* identity has a job queued or with the worker.
C34_WorkerSurvivesJobFailure ==
    [][(WorkerTakeRaises \/ SendOkMarkRaises) =>
          /\ worker'.state = "idle"
          /\ \A id \in pending' :
                 \/ JobsOf(queue', id) > 0
                 \/ worker'.state # "idle" /\ worker'.job.id = id]_vars

\* ------------------------------------------- claims on CallbackGuardMiddleware
\* the part of C35 that is about the middleware alone (it holds): the handler is
\* started exactly when acquire returned true, never while the key's lock is live
HandlerOnlyWhenAccepted ==
    [][\A c \in Callbacks, key \in Keys :
          CallbackGuardMiddleware_call(c, key) =>
              /\ (cbs'[c].pc = "handler") <=> lastClick'.result
              /\ (\E expires_at \in locks[key] : expires_at > now) =>
                     cbs'[c].pc = "dedup" /\ handlerStarts' = handlerStarts]_vars

\* C35: for callbacks on one (chat, message) the handler is started exactly for the
\* callbacks whose acquire returned true, a callback that arrives while the key's lock
\* is live is answered without the handler, and two handler starts on one key are at
\* least one window apart.
C35_OneHandlerPerWindow ==
    /\ HandlerOnlyWhenAccepted
    /\ [](\A key \in Keys : \A t1, t2 \in handlerStarts[key] :
              t1 < t2 => t2 - t1 >= Window)

\* C36: a lock stays for its window unless its own holder releases it: the delayed
\* release scheduled by a callback never removes a live lock that another, later
\* callback acquired.
C36_ReleaseLaterKeepsLaterLock ==
    [][\A c \in Callbacks :
          release_later(c) =>
              \A expires_at \in locks[cbs[c].key] :
                  expires_at > now => grantedAt[cbs[c].key] = {cbs[c].acquired_at}]_vars

\* ----------------------------------------------- claims on dispatch_due_events
\* the event whose send is awaited
Handled == disp.list[disp.pos]
LaterTimes == now .. (EventsMaxTime + 1)

\* C38: _handle_event sets last_fired_at exactly when its send returned a result;
\* when the send raised or was resolved with None the event is as it was, and if it
\* was due it is returned by due_events() at every later instant.
C38_FiredOnlyOnSuccess ==
    [][\A outcome \in SendResults :
          HandleEventEnds(outcome) =>
              IF outcome = "result"
              THEN events'[Handled].last_fired_at = {now}
              ELSE /\ events' = events
                   /\ IsDue(events[Handled], now) =>
                          \A t \in LaterTimes :
                              Handled \in Range(DueLoop(evOrder', events', t))]_vars

\* the last send was dropped as a duplicate and its event is unfired and still due
C38_Witness ==
    /\ disp.last.outcome = "none"
    /\ disp.last.e \in EventIds
    /\ events[disp.last.e].last_fired_at = {}
    /\ disp.last.e \in Range(DueLoop(evOrder, events, now))

\* C39: an event marked fired at or after its remind instant (as it is when its
\* start time did not change while the send was awaited) is not returned by
\* due_events() at any later instant while its start time stays; reschedule_event
\* (snooze calls it with starts_at + minutes) clears last_fired_at, so the event is
\* returned again from the remind instant of the new time on; a cancelled event is
\* never returned.
C39_FiredUntilRescheduled ==
    /\ [](\A e \in EventIds : \A t \in LaterTimes :
              (\/ events[e].cancelled
               \/ \E f \in events[e].last_fired_at :
                      f >= events[e].starts_at - events[e].lead_time_minutes)
              => e \notin Range(DueLoop(evOrder, events, t)))
    /\ [][/\ (/\ HandleEventEnds("result")
              /\ events[Handled].starts_at - events[Handled].lead_time_minutes <= now) =>
                 \A t \in LaterTimes :
                     Handled \notin Range(DueLoop(evOrder', events', t))
          /\ \A e \in EventIds, new_time \in EventStarts :
                 reschedule_event(e, new_time) =>
                     /\ events'[e].last_fired_at = {}
                     /\ \A t \in LaterTimes :
                            (e \in Range(DueLoop(evOrder', events', t))) <=>
                                /\ ~events[e].cancelled
                                /\ new_time - events[e].lead_time_minutes <= t]_vars

\* an event that was sent and marked fired has been moved since and is due again
C39_Witness ==
    /\ disp.last.outcome = "result"
    /\ disp.last.e \in EventIds
    /\ events[disp.last.e].last_fired_at = {}
    /\ disp.last.e \in Range(DueLoop(evOrder, events, now))
    /\ \E o \in EventIds :
           /\ events[o].cancelled
           /\ events[o].starts_at - events[o].lead_time_minutes <= now

\* C40: when the send for one due event fails, the run goes on to the remaining due
\* events of its list.
C40_FailureDoesNotStopRun ==
    [][(HandleEventEnds("raises") /\ disp.pos < Len(disp.list)) =>
          /\ disp'.pc = "sending"
          /\ disp'.pos = disp.pos + 1]_vars

\* ------------------------------------------------- claims on the op_id dedup
\* C37: for one op_id two calls are accepted for execution only more than the dedup
\* window (60 s) apart; a call taken while a call of its op_id was accepted within
\* the last window is not executed and its future is resolved with None, whichever
\* worker_tick run takes it and whatever the other runs are doing.
C37_OneExecutionPerWindow ==
    /\ [](\A op \in OpIds : \A t1, t2 \in acceptedAt[op] :
              t1 < t2 => t2 - t1 > DedupWindow)
    /\ [][\A i \in TickRuns :
              (/\ _process_call(i)
               /\ \E t \in acceptedAt[tcalls[Head(tq)].op_id] : now - t <= DedupWindow)
              => /\ tcalls'[Head(tq)].future = "none_result"
                 /\ truns' = truns
                 /\ acceptedAt' = acceptedAt]_vars

\* a call was dropped as a duplicate while another run still executes the call of
\* the same op_id, and an op_id was accepted a second time after its window
C37_Witness ==
    /\ \E i \in TickRuns, k \in TgCalls :
           /\ truns[i] # NoCall
           /\ k # truns[i]
           /\ tcalls[k].op_id = tcalls[truns[i]].op_id
           /\ tcalls[k].deduped
    /\ \E op \in OpIds : Cardinality(acceptedAt[op]) = 2

============================================================================
